---- MODULE Spec2Model ----
(***************************************************************************)
(* Front end of the parallel-gs graphics-synthesizer emulator:             *)
(* GSInterface (src/gs/gs_interface.cpp) and the PageTracker contract      *)
(* (src/gs/page_tracker.hpp).                                              *)
(*                                                                         *)
(* The whole interface object is one record, and every C++ method is an    *)
(* operator from the object before the call to the object after it, so     *)
(* that nested calls (draw kick -> tracker -> flush callback -> render     *)
(* pass flush) compose as in the source.  The field `calls` collects, in   *)
(* order, the tracker and back-end calls made by the handler that is       *)
(* running; every action starts it empty.                                  *)
(*                                                                         *)
(* 32-bit masks (block_mask, write_mask, csa_mask, FBMSK) are sets of bit  *)
(* numbers; a register is the record of its named bit fields; Util::Hash   *)
(* of a descriptor is the descriptor itself (no collisions).               *)
(***************************************************************************)
EXTENDS Integers, Sequences, FiniteSets, TLC

VARIABLES gs, op, probe, feed, ghost

vars == <<gs, op, probe, feed, ghost>>

(***************************************************************************)
(* Bounds of the model.  The capacities are program constants whose        *)
(* headers are not part of the sources at hand; the model scales them      *)
(* down so that every limit is reached.                                    *)
(***************************************************************************)
NumPages == 4

MaxPrimitivesPerFlush == 3

MaxTextures == 2

MaxStateVectors == 2

CLUTInstances == 3

NumMemoizedPalettes == 2

MaxLabelKey == 1

MaxPaletteUploads == 3

Min(a, b) == IF a < b THEN a ELSE b

Max(a, b) == IF a > b THEN a ELSE b

Range(f) == {f[i] : i \in DOMAIN f}

Bits(lo, hi) == lo..hi

AllBits == 0..31

Low24 == 0..23

High8 == 24..31

Pages == 0..(NumPages - 1)

BLOCKS_PER_PAGE == 32

SUBPIXEL_BITS == 4

BUFFER_WIDTH_SCALE == 64

(***************************************************************************)
(* Flush phases and flag sets of the tracker callback.                     *)
(***************************************************************************)
PAGE_TRACKER_FLUSH_FB_ALL == {"HOST_VRAM_SYNC", "CACHE", "COPY", "FB"}

PAGE_TRACKER_FLUSH_COPY_ALL == {"HOST_VRAM_SYNC", "COPY"}

PAGE_TRACKER_FLUSH_CACHE_ALL == {"HOST_VRAM_SYNC", "COPY", "CACHE"}

FlushReasons == {"FBPointer", "Overflow", "TextureHazard", "CopyHazard", "SubmissionFlush"}

STATE_DIRTY_ALL_BITS == {"DEGENERATE", "STATE", "PRIM_TEMPLATE", "TEX", "FB", "FEEDBACK"}

(***************************************************************************)
(* A call made to the tracker or to the back-end: its name and arguments.  *)
(***************************************************************************)
Call(name, args) == [c |-> name, v |-> args]

Log(s, name, args) == [s EXCEPT !.calls = Append(@, Call(name, args))]

CallNames(s) == {s.calls[i].c : i \in DOMAIN s.calls}

IndexOf(s, name) == IF name \in CallNames(s) THEN CHOOSE i \in DOMAIN s.calls : s.calls[i].c = name /\ \A j \in 1..(i - 1) : s.calls[j].c # name ELSE 0

LastIndexOf(s, name) == IF name \in CallNames(s) THEN CHOOSE i \in DOMAIN s.calls : s.calls[i].c = name /\ \A j \in (i + 1)..Len(s.calls) : s.calls[j].c # name ELSE 0

CountOf(s, name) == Cardinality({i \in DOMAIN s.calls : s.calls[i].c = name})


INT32_MAX == 2147483647

INT32_MIN == (0 - INT32_MAX) - 1

NoIndex == 0 - 1

(***************************************************************************)
(* Registers.  A register is the record of its bit fields                  *)
(* (Reg64<...>::desc); comparing `bits` is comparing the records.          *)
(* Registers that no modelled command writes (ALPHA, DIMX, DTHE, PABE,     *)
(* COLCLAMP, FBA, SCANMSK, FOG, FOGCOL, TEXA, TEX1, CLAMP, MIPTBP,         *)
(* XYOFFSET) keep the value 0 they are constructed with and are read as    *)
(* that constant.                                                          *)
(***************************************************************************)
PRIMZero == [PRIM |-> 0, IIP |-> 0, TME |-> 0, FGE |-> 0, ABE |-> 0, AA1 |-> 0, FST |-> 0, CTXT |-> 0, FIX |-> 0]

FRAMEZero == [FBP |-> 0, FBW |-> 0, PSM |-> "PSMCT32", FBMSK |-> {}]

ZBUFZero == [ZBP |-> 0, PSM |-> "PSMZ32", ZMSK |-> 0]

TEX0Zero == [TBP0 |-> 0, TBW |-> 0, PSM |-> "PSMCT32", TW |-> 0, TH |-> 0, TCC |-> 0, TFX |-> 0, CBP |-> 0, CPSM |-> "PSMCT32", CSM |-> 0, CSA |-> 0, CLD |-> 0]

TESTZero == [ATE |-> 0, ATST |-> 0, AREF |-> 0, AFAIL |-> 0, DATE |-> 0, DATM |-> 0, ZTE |-> 0, ZTST |-> 0]

SCISSORZero == [SCAX0 |-> 0, SCAX1 |-> 0, SCAY0 |-> 0, SCAY1 |-> 0]

TEXCLUTZero == [CBW |-> 0, COU |-> 0, COV |-> 0]

BITBLTBUFZero == [SBP |-> 0, SBW |-> 0, SPSM |-> "PSMCT32", DBP |-> 0, DBW |-> 0, DPSM |-> "PSMCT32"]

TRXPOSZero == [SSAX |-> 0, SSAY |-> 0, DSAX |-> 0, DSAY |-> 0, DIR |-> 0]

TRXREGZero == [RRW |-> 0, RRH |-> 0]

TRXDIRZero == [XDIR |-> 0]

STZero == [S |-> 0, T |-> 0]

RGBAQZero == [R |-> 0, G |-> 0, B |-> 0, A |-> 0, Q |-> 0]

UVZero == [U |-> 0, V |-> 0]

TEX1Zero == [LCM |-> 0, MXL |-> 0, MMAG |-> 0, MMIN |-> 0, MTBA |-> 0, L |-> 0, K |-> 0]

ContextZero == [frame |-> FRAMEZero, zbuf |-> ZBUFZero, tex0 |-> TEX0Zero, tex1 |-> TEX1Zero, test |-> TESTZero, scissor |-> SCISSORZero]

RegistersInit == [prim |-> PRIMZero, prmodecont |-> [AC |-> 1], ctx |-> [c \in 0..1 |-> ContextZero], texclut |-> TEXCLUTZero, cached_cbp |-> <<0, 0>>, st |-> STZero, rgbaq |-> RGBAQZero, uv |-> UVZero, fog |-> 0, internal_q |-> 0, bitbltbuf |-> BITBLTBUFZero, trxpos |-> TRXPOSZero, trxreg |-> TRXREGZero, trxdir |-> TRXDIRZero]

(***************************************************************************)
(* The render-pass accumulator, the memoized derived state, the vertex     *)
(* queue, the transfer engine and the GIF paths.                           *)
(***************************************************************************)
EmptyBB == [x |-> INT32_MAX, y |-> INT32_MAX, z |-> INT32_MIN, w |-> INT32_MIN]

RenderPassInit == [primitive_count |-> 0, prim |-> <<>>, positions |-> <<>>, attributes |-> <<>>, frame |-> FRAMEZero, zbuf |-> ZBUFZero, fb_page_width_log2 |-> 6, fb_page_height_log2 |-> 5, z_page_width_log2 |-> 6, z_page_height_log2 |-> 5, state_vectors |-> <<>>, state_vector_map |-> {}, tex_infos |-> <<>>, texture_map |-> {}, held_images |-> <<>>, pending_palette_updates |-> 0, bb |-> EmptyBB, color_write_mask |-> {}, z_sensitive |-> FALSE, z_write |-> FALSE, has_color_feedback |-> FALSE, feedback_psm |-> "PSMCT32", feedback_cpsm |-> "PSMCT32", has_aa1 |-> FALSE, has_scanmsk |-> FALSE, is_color_feedback |-> FALSE, is_potential_color_feedback |-> FALSE, is_potential_depth_feedback |-> FALSE, clut_instance |-> 0, latest_clut_instance |-> 0, memoized_palettes |-> <<>>, label_key |-> 0]

StateVectorZero == [blend_mode |-> [ATE |-> FALSE, ATST |-> 0, AFAIL |-> 0, DATE |-> FALSE, DATM |-> FALSE, ABE |-> FALSE], combiner |-> [TME |-> FALSE, TCC |-> FALSE, TFX |-> 0, FOG |-> FALSE], dimx |-> <<0, 0>>]

PrimTemplateZero == [tex |-> [index |-> 0, feedback |-> FALSE, flags |-> {}], tex2 |-> [LCM |-> 0, L |-> 0, K |-> 0], state |-> [index |-> 0, bits |-> {}]]

PageRectZero == [base_page |-> 0, page_width |-> 0, page_height |-> 0, page_stride |-> 0, block_mask |-> {}, write_mask |-> {}]

TexRectZero == [x |-> 0, y |-> 0, width |-> 0, height |-> 0, levels |-> 0]

StateTrackerInit == [dirty_flags |-> STATE_DIRTY_ALL_BITS, last_state_vector |-> StateVectorZero, last_state_index |-> 0, last_texture_index |-> NoIndex, last_texture_descriptor |-> [tex0 |-> TEX0Zero, palette_bank |-> 0, latest_palette_bank |-> 0, rect |-> TexRectZero], prim_template |-> PrimTemplateZero, degenerate_draw |-> FALSE, tex |-> [rect |-> TexRectZero, levels |-> <<[base |-> 0, stride |-> 0]>>, page_rects |-> <<PageRectZero>>]]

VertexPositionZero == [x |-> 0, y |-> 0, z |-> 0]

VertexAttributeZero == [st |-> STZero, q |-> 0, rgba |-> <<0, 0, 0, 0>>, fog |-> 0, uv |-> UVZero]

VertexQueueInit == [count |-> 0, pos |-> <<VertexPositionZero, VertexPositionZero, VertexPositionZero>>, attr |-> <<VertexAttributeZero, VertexAttributeZero, VertexAttributeZero>>]

TransferStateInit == [host_to_local_active |-> FALSE, host_to_local_payload |-> <<>>, last_flushed_qwords |-> 0, required_qwords |-> 0, copy |-> [trxdir |-> TRXDIRZero, trxreg |-> TRXREGZero, trxpos |-> TRXPOSZero, bitbltbuf |-> BITBLTBUFZero]]

ZeroQword == <<0, 0, 0, 0, 0, 0, 0, 0>>

GIFPathInit == [tag |-> ZeroQword, loop |-> 0, reg |-> 0]

(***************************************************************************)
(* PageState of the tracker, one per VRAM page.                            *)
(***************************************************************************)
PageStateInit == [flags |-> {}, pending_fb_access_mask |-> {}, copy_write_block_mask |-> {}, copy_read_block_mask |-> {}, cached_read_block_mask |-> {}, texture_cache_needs_invalidate_block_mask |-> {}, texture_cache_needs_invalidate_write_mask |-> {}]

TrackerInit == [page_state |-> [p \in Pages |-> PageStateInit], cached_textures |-> {}, csa_written_mask |-> {}]

(***************************************************************************)
(* GSInterface after construction and init(): setup_handlers() installs    *)
(* drawing_kick_invalid, AC is AC_DEFAULT, every optimized handler is      *)
(* null and the accumulator is empty.                                      *)
(***************************************************************************)
GSInit == [registers |-> RegistersInit, render_pass |-> RenderPassInit, state_tracker |-> StateTrackerInit, vertex_queue |-> VertexQueueInit, transfer_state |-> TransferStateInit, paths |-> [p \in 0..3 |-> GIFPathInit], optimized_draw_handler |-> [p \in 0..3 |-> [h |-> "nullptr"]], draw_handler |-> "drawing_kick_invalid", tracker |-> TrackerInit, sync_host_vram_pages |-> {}, sync_vram_host_pages |-> {}, sampling_rate_x_log2 |-> 0, sampling_rate_y_log2 |-> 0, renderer |-> [clut_instance |-> 0], calls |-> <<>>, fault |-> "none"]

(***************************************************************************)
(* GSInterface::set_super_sampling_rate.                                   *)
(***************************************************************************)
SuperSampling == {"X1", "X2", "X4", "X8", "X16"}

set_super_sampling_rate(s, super_sampling) ==
  LET x == CASE super_sampling = "X1" -> 0
             [] super_sampling = "X2" -> 0
             [] super_sampling = "X4" -> 1
             [] super_sampling = "X8" -> 1
             [] super_sampling = "X16" -> 2
      y == CASE super_sampling = "X1" -> 0
             [] super_sampling = "X2" -> 1
             [] super_sampling = "X4" -> 1
             [] super_sampling = "X8" -> 2
             [] super_sampling = "X16" -> 2
  IN Log([s EXCEPT !.sampling_rate_x_log2 = x, !.sampling_rate_y_log2 = y], "invalidate_super_sampling_state", <<>>)

(***************************************************************************)
(* The binning cost of flush_render_pass is a uint32_t product.  A value   *)
(* of up to 33 bits is kept as two halves, hi * 2^16 + lo, so that the     *)
(* exact product and its 32-bit truncation are both at hand.               *)
(***************************************************************************)
FB_SWIZZLE_WIDTH_LOG2 == 3

FB_SWIZZLE_HEIGHT_LOG2 == 3

Wide(k) == [hi |-> k \div 65536, lo |-> k % 65536]

WideNormal(high, low) == [hi |-> high + low \div 65536, lo |-> low % 65536]

WideSum(X, Y) == WideNormal(X \div 256, (X % 256) * 256 + Y)

WideProduct(tiles, n) == WideSum(tiles * (n \div 256), tiles * (n % 256))

Uint32(w) == [hi |-> w.hi % 65536, lo |-> w.lo]

WideLess(a, b) == a.hi < b.hi \/ (a.hi = b.hi /\ a.lo < b.lo)

tile_width(bb) == ((bb.z - bb.x) \div (2 ^ FB_SWIZZLE_WIDTH_LOG2)) + 1

tile_height(bb) == ((bb.w - bb.y) \div (2 ^ FB_SWIZZLE_HEIGHT_LOG2)) + 1

binning_cost(bb, num_primitives) == Uint32(WideProduct(tile_width(bb) * tile_height(bb), num_primitives))

TileSizeOfCost(cost) ==
  IF WideLess(cost, Wide(10 * 1000)) THEN 3
  ELSE IF WideLess(cost, Wide(10 * 1000 * 1000)) THEN 4
  ELSE IF WideLess(cost, Wide(100 * 1000 * 1000)) THEN 5
  ELSE 6

TileSizeBias(chosen, sampling_rate_y_log2) == IF sampling_rate_y_log2 # 0 /\ chosen > 3 THEN chosen - 1 ELSE chosen

coarse_tile_size_log2(bb, num_primitives, sampling_rate_y_log2) == TileSizeBias(TileSizeOfCost(binning_cost(bb, num_primitives)), sampling_rate_y_log2)

(***************************************************************************)
(* GSInterface::flush_render_pass: hand the accumulated pass to the        *)
(* back-end when it holds primitives, then reset the accumulator.          *)
(***************************************************************************)
RenderPassDesc(s, reason) == LET rp == s.render_pass IN [num_primitives |-> rp.primitive_count, coarse_tile_size_log2 |-> coarse_tile_size_log2(rp.bb, rp.primitive_count, s.sampling_rate_y_log2), sampling_rate_y_log2 |-> s.sampling_rate_y_log2, prims |-> rp.prim, frame |-> rp.frame, z |-> rp.zbuf, states |-> rp.state_vectors, textures |-> rp.tex_infos, base_x |-> rp.bb.x, base_y |-> rp.bb.y, feedback_texture |-> rp.has_color_feedback, z_sensitive |-> rp.z_sensitive, label_key |-> rp.label_key, flush_reason |-> reason, pending_palette_updates |-> rp.pending_palette_updates]

flush_render_pass_keep_flags(s, reason) ==
  LET rp == s.render_pass
      s1 == IF rp.primitive_count # 0
            THEN Log([s EXCEPT !.render_pass.label_key = @ + 1], "flush_rendering", RenderPassDesc(s, reason))
            ELSE s
  IN [s1 EXCEPT !.render_pass.held_images = <<>>,
                !.render_pass.texture_map = {},
                !.render_pass.tex_infos = <<>>,
                !.render_pass.state_vector_map = {},
                !.render_pass.state_vectors = <<>>,
                !.render_pass.prim = <<>>,
                !.render_pass.positions = <<>>,
                !.render_pass.attributes = <<>>,
                !.render_pass.primitive_count = 0,
                !.render_pass.pending_palette_updates = 0,
                !.render_pass.bb = EmptyBB,
                !.render_pass.color_write_mask = {},
                !.render_pass.z_sensitive = FALSE,
                !.render_pass.z_write = FALSE,
                !.render_pass.has_color_feedback = FALSE,
                !.render_pass.has_aa1 = FALSE,
                !.render_pass.has_scanmsk = FALSE]

flush_render_pass_same_label(s, reason) ==
  LET rp == s.render_pass
      s1 == IF rp.primitive_count # 0
            THEN Log(s, "flush_rendering", RenderPassDesc(s, reason))
            ELSE s
  IN [s1 EXCEPT !.render_pass.held_images = <<>>,
                !.render_pass.texture_map = {},
                !.render_pass.tex_infos = <<>>,
                !.render_pass.state_vector_map = {},
                !.render_pass.state_vectors = <<>>,
                !.render_pass.prim = <<>>,
                !.render_pass.positions = <<>>,
                !.render_pass.attributes = <<>>,
                !.render_pass.primitive_count = 0,
                !.render_pass.pending_palette_updates = 0,
                !.render_pass.bb = EmptyBB,
                !.render_pass.color_write_mask = {},
                !.render_pass.z_sensitive = FALSE,
                !.render_pass.z_write = FALSE,
                !.render_pass.has_color_feedback = FALSE,
                !.render_pass.has_aa1 = FALSE,
                !.render_pass.has_scanmsk = FALSE,
                !.state_tracker.dirty_flags = STATE_DIRTY_ALL_BITS]

flush_render_pass(s, reason) ==
  LET rp == s.render_pass
      s1 == IF rp.primitive_count # 0
            THEN Log([s EXCEPT !.render_pass.label_key = @ + 1], "flush_rendering", RenderPassDesc(s, reason))
            ELSE s
  IN [s1 EXCEPT !.render_pass.held_images = <<>>,
                !.render_pass.texture_map = {},
                !.render_pass.tex_infos = <<>>,
                !.render_pass.state_vector_map = {},
                !.render_pass.state_vectors = <<>>,
                !.render_pass.prim = <<>>,
                !.render_pass.positions = <<>>,
                !.render_pass.attributes = <<>>,
                !.render_pass.primitive_count = 0,
                !.render_pass.pending_palette_updates = 0,
                !.render_pass.bb = EmptyBB,
                !.render_pass.color_write_mask = {},
                !.render_pass.z_sensitive = FALSE,
                !.render_pass.z_write = FALSE,
                !.render_pass.has_color_feedback = FALSE,
                !.render_pass.has_aa1 = FALSE,
                !.render_pass.has_scanmsk = FALSE,
                !.state_tracker.dirty_flags = STATE_DIRTY_ALL_BITS]

(***************************************************************************)
(* GSInterface::flush, the tracker's callback: the phases in fixed order.  *)
(***************************************************************************)
flush_cache_first(s, flags, reason) ==
  LET HostVramSync(t) == IF "HOST_VRAM_SYNC" \in flags
                         THEN [(IF t.sync_host_vram_pages # {} THEN [t EXCEPT !.calls = Append(@, Call("flush_host_vram_copy", t.sync_host_vram_pages))] ELSE t) EXCEPT !.sync_host_vram_pages = {}]
                         ELSE t
      Copy(t) == IF "COPY" \in flags
                 THEN Log(t, IF flags \cap {"CACHE", "FB", "WRITE_BACK"} # {} THEN "flush_transfer" ELSE "transfer_overlap_barrier", <<>>)
                 ELSE t
      Cache(t) == IF "CACHE" \in flags
                  THEN [t EXCEPT !.calls = Append(@, Call("flush_cache_upload", <<>>)), !.render_pass.memoized_palettes = <<>>]
                  ELSE t
      FB(t) == IF "FB" \in flags THEN flush_render_pass(t, reason) ELSE t
      WriteBack(t) == IF "WRITE_BACK" \in flags
                      THEN [(IF t.sync_vram_host_pages # {} THEN [t EXCEPT !.calls = Append(@, Call("flush_readback", t.sync_vram_host_pages))] ELSE t) EXCEPT !.sync_vram_host_pages = {}]
                      ELSE t
  IN WriteBack(FB(Copy(Cache(HostVramSync(Log(s, "flush", [flags |-> flags, reason |-> reason]))))))

flush(s, flags, reason) ==
  LET HostVramSync(t) == IF "HOST_VRAM_SYNC" \in flags
                         THEN [(IF t.sync_host_vram_pages # {} THEN [t EXCEPT !.calls = Append(@, Call("flush_host_vram_copy", t.sync_host_vram_pages))] ELSE t) EXCEPT !.sync_host_vram_pages = {}]
                         ELSE t
      Copy(t) == IF "COPY" \in flags
                 THEN Log(t, IF flags \cap {"CACHE", "FB", "WRITE_BACK"} # {} THEN "flush_transfer" ELSE "transfer_overlap_barrier", <<>>)
                 ELSE t
      Cache(t) == IF "CACHE" \in flags
                  THEN [t EXCEPT !.calls = Append(@, Call("flush_cache_upload", <<>>)), !.render_pass.memoized_palettes = <<>>]
                  ELSE t
      FB(t) == IF "FB" \in flags THEN flush_render_pass(t, reason) ELSE t
      WriteBack(t) == IF "WRITE_BACK" \in flags
                      THEN [(IF t.sync_vram_host_pages # {} THEN [t EXCEPT !.calls = Append(@, Call("flush_readback", t.sync_vram_host_pages))] ELSE t) EXCEPT !.sync_vram_host_pages = {}]
                      ELSE t
  IN WriteBack(FB(Cache(Copy(HostVramSync(Log(s, "flush", [flags |-> flags, reason |-> reason]))))))

sync_host_vram_page(s, page_index) == [s EXCEPT !.sync_host_vram_pages = @ \cup {page_index}]

sync_vram_host_page(s, page_index) == [s EXCEPT !.sync_vram_host_pages = @ \cup {page_index}]

mark_texture_state_dirty(s) == [s EXCEPT !.state_tracker.last_texture_index = NoIndex, !.state_tracker.dirty_flags = @ \cup {"PRIM_TEMPLATE", "TEX"}]

invalidate_texture_hash(s, hash, clut) ==
  LET Unmap(t) == IF ~clut
                  THEN [t EXCEPT !.render_pass.texture_map = {IF e.hash = hash THEN [e EXCEPT !.valid = FALSE] ELSE e : e \in @}]
                  ELSE t
  IN mark_texture_state_dirty(Unmap(s))

forget_in_render_pass_memoization(s) == mark_texture_state_dirty([s EXCEPT !.render_pass.memoized_palettes = <<>>])

(***************************************************************************)
(* PageTracker.  Only its declarations are in the sources; the operators   *)
(* below follow the contracts of the specification (section 4.2): what     *)
(* each call records, which hazard it detects, and which flush it asks     *)
(* of the callback before it returns.                                      *)
(***************************************************************************)
RectPages(rect) == {(rect.base_page + y * rect.page_stride + x) % NumPages : x \in 0..(rect.page_width - 1), y \in 0..(rect.page_height - 1)}

page_has_flag(s, rect, flag) == \E p \in RectPages(rect) : flag \in s.tracker.page_state[p].flags

page_has_flag_with_fb_access_mask(s, rect, flag, write_mask) == \E p \in RectPages(rect) : flag \in s.tracker.page_state[p].flags /\ s.tracker.page_state[p].pending_fb_access_mask \cap write_mask # {}

get_block_state(s, rect) == [copy_write_block_mask |-> UNION {s.tracker.page_state[p].copy_write_block_mask : p \in RectPages(rect)}, copy_read_block_mask |-> UNION {s.tracker.page_state[p].copy_read_block_mask : p \in RectPages(rect)}, cached_read_block_mask |-> UNION {s.tracker.page_state[p].cached_read_block_mask : p \in RectPages(rect)}]

clear_page_flags(s, flags) == [s EXCEPT !.tracker.page_state = [p \in Pages |-> [@[p] EXCEPT !.flags = @ \ flags, !.pending_fb_access_mask = IF "FB_WRITE" \in flags THEN {} ELSE @]]]

clear_block_state(s, flags) == [s EXCEPT !.tracker.page_state = [p \in Pages |-> [@[p] EXCEPT !.copy_write_block_mask = IF "COPY" \in flags THEN {} ELSE @, !.copy_read_block_mask = IF "COPY" \in flags THEN {} ELSE @, !.cached_read_block_mask = IF "CACHE" \in flags THEN {} ELSE @]]]

tracker_flush(s, flags, reason) ==
  LET ClearFlags(t) == IF "FB" \in flags THEN clear_page_flags(t, {"FB_WRITE", "FB_READ"}) ELSE t
  IN ClearFlags(clear_block_state(flush(s, flags, reason), flags))

tracker_flush_render_pass(s, reason) == tracker_flush(s, PAGE_TRACKER_FLUSH_FB_ALL, reason)

flush_copy(s) == tracker_flush(s, PAGE_TRACKER_FLUSH_COPY_ALL, "CopyHazard")

flush_cached(s) == tracker_flush(s, PAGE_TRACKER_FLUSH_CACHE_ALL, "CopyHazard")

UpdatePages(s, rect, f(_)) == [s EXCEPT !.tracker.page_state = [p \in Pages |-> IF p \in RectPages(rect) THEN f(@[p]) ELSE @[p]]]

mark_fb_write(s, rect) ==
  LET rec(ps) == [ps EXCEPT !.flags = @ \cup {"FB_WRITE"}, !.pending_fb_access_mask = @ \cup rect.write_mask, !.texture_cache_needs_invalidate_block_mask = @ \cup rect.block_mask, !.texture_cache_needs_invalidate_write_mask = @ \cup rect.write_mask]
  IN UpdatePages(Log(s, "mark_fb_write", rect), rect, rec)

mark_fb_read(s, rect) ==
  LET rec(ps) == [ps EXCEPT !.flags = @ \cup {"FB_READ"}]
  IN UpdatePages(Log(s, "mark_fb_read", rect), rect, rec)

mark_texture_read_unchecked(s, rect) ==
  LET rec(ps) == [ps EXCEPT !.cached_read_block_mask = @ \cup rect.block_mask]
  IN UpdatePages(Log(s, "mark_texture_read", rect), rect, rec)

mark_texture_read_barrier_only(s, rect) ==
  LET Hazard(t) == IF page_has_flag_with_fb_access_mask(t, rect, "FB_WRITE", rect.write_mask) THEN "render_pass"
                   ELSE IF get_block_state(t, rect).copy_write_block_mask \cap rect.block_mask # {} THEN "copy"
                   ELSE "none"
      Resolve(t) == IF Hazard(t) = "none" THEN t
                    ELSE tracker_flush(t, IF Hazard(t) = "render_pass" THEN PAGE_TRACKER_FLUSH_FB_ALL ELSE PAGE_TRACKER_FLUSH_COPY_ALL, IF Hazard(t) = "render_pass" THEN "TextureHazard" ELSE "CopyHazard")
      rec(ps) == [ps EXCEPT !.cached_read_block_mask = @ \cup rect.block_mask]
  IN UpdatePages(Resolve(Log(s, "mark_texture_read", rect)), rect, rec)

(***************************************************************************)
(* PageTracker::mark_texture_read.  A read of blocks an unflushed render   *)
(* pass writes flushes the pass; a read of blocks a pending copy writes    *)
(* flushes the copies together with the cache uploads, the copy-only mask  *)
(* being the one that resolves a write-after-write between copies          *)
(* (GSInterface::flush, copy phase).                                       *)
(***************************************************************************)
mark_texture_read(s, rect) ==
  LET Hazard(t) == IF page_has_flag_with_fb_access_mask(t, rect, "FB_WRITE", rect.write_mask) THEN "render_pass"
                   ELSE IF get_block_state(t, rect).copy_write_block_mask \cap rect.block_mask # {} THEN "copy"
                   ELSE "none"
      Resolve(t) == IF Hazard(t) = "none" THEN t
                    ELSE tracker_flush(t, IF Hazard(t) = "render_pass" THEN PAGE_TRACKER_FLUSH_FB_ALL ELSE PAGE_TRACKER_FLUSH_CACHE_ALL, IF Hazard(t) = "render_pass" THEN "TextureHazard" ELSE "CopyHazard")
      rec(ps) == [ps EXCEPT !.cached_read_block_mask = @ \cup rect.block_mask]
  IN UpdatePages(Resolve(Log(s, "mark_texture_read", rect)), rect, rec)

mark_transfer_write(s, rect) ==
  LET Hazard(t) == IF page_has_flag(t, rect, "FB_WRITE") \/ page_has_flag(t, rect, "FB_READ") THEN "render_pass"
                   ELSE IF get_block_state(t, rect).cached_read_block_mask \cap rect.block_mask # {} THEN "cached"
                   ELSE IF (get_block_state(t, rect).copy_write_block_mask \cup get_block_state(t, rect).copy_read_block_mask) \cap rect.block_mask # {} THEN "copy"
                   ELSE "none"
      Resolve(t) == IF Hazard(t) = "none" THEN t
                    ELSE tracker_flush(t, IF Hazard(t) = "render_pass" THEN PAGE_TRACKER_FLUSH_FB_ALL ELSE IF Hazard(t) = "cached" THEN PAGE_TRACKER_FLUSH_CACHE_ALL ELSE PAGE_TRACKER_FLUSH_COPY_ALL, "CopyHazard")
      rec(ps) == [ps EXCEPT !.copy_write_block_mask = @ \cup rect.block_mask, !.texture_cache_needs_invalidate_block_mask = @ \cup rect.block_mask, !.texture_cache_needs_invalidate_write_mask = @ \cup rect.write_mask]
  IN UpdatePages(Resolve(Log(s, "mark_transfer_write", rect)), rect, rec)

register_cached_clut_clobber(s, rect) == [Log(s, "register_cached_clut_clobber", rect) EXCEPT !.tracker.csa_written_mask = @ \cup rect.csa_mask]

register_cached_texture(s, level_rects, csa_mask, clut_instance, hash) == [Log(s, "register_cached_texture", hash) EXCEPT !.tracker.cached_textures = @ \cup {[hash |-> hash, rects |-> level_rects, csa_mask |-> csa_mask, clut_instance |-> clut_instance]}]

find_cached_texture(s, hash) == \E t \in s.tracker.cached_textures : t.hash = hash

TextureWritten(s, t) == \E i \in DOMAIN t.rects : \E p \in RectPages(t.rects[i]) : s.tracker.page_state[p].texture_cache_needs_invalidate_block_mask \cap t.rects[i].block_mask # {} /\ s.tracker.page_state[p].texture_cache_needs_invalidate_write_mask \cap t.rects[i].write_mask # {}

TextureClutWritten(s, t, clut_instance_match) == t.csa_mask \cap s.tracker.csa_written_mask # {} /\ t.clut_instance # clut_instance_match

InvalidatedTextures(s, clut_instance_match) == {t \in s.tracker.cached_textures : TextureWritten(s, t) \/ TextureClutWritten(s, t, clut_instance_match)}

RECURSIVE InvalidateHashes(_, _, _)
InvalidateHashes(s, ts, clut_instance_match) ==
  IF ts = {} THEN s
  ELSE LET t == CHOOSE x \in ts : TRUE
       IN InvalidateHashes(invalidate_texture_hash(s, t.hash, ~TextureWritten(s, t)), ts \ {t}, clut_instance_match)

invalidate_texture_cache(s, clut_instance_match) ==
  LET gone == InvalidatedTextures(s, clut_instance_match)
      Clear(t) == [t EXCEPT !.tracker.cached_textures = @ \ gone,
                            !.tracker.csa_written_mask = {},
                            !.tracker.page_state = [p \in Pages |-> [@[p] EXCEPT !.texture_cache_needs_invalidate_block_mask = {}, !.texture_cache_needs_invalidate_write_mask = {}]]]
  IN Clear(InvalidateHashes(Log(s, "invalidate_texture_cache", clut_instance_match), gone, clut_instance_match))

HostAccessPending(s, rect) == page_has_flag(s, rect, "FB_WRITE") \/ get_block_state(s, rect).copy_write_block_mask # {}

mark_submission_timeline(s) == tracker_flush(s, PAGE_TRACKER_FLUSH_FB_ALL \cup {"WRITE_BACK"}, "SubmissionFlush")

mark_transfer_copy(s, dst_rect, src_rect) ==
  LET Hazard(t) == IF page_has_flag(t, dst_rect, "FB_WRITE") \/ page_has_flag(t, dst_rect, "FB_READ") \/ page_has_flag(t, src_rect, "FB_WRITE") THEN "render_pass"
                   ELSE IF get_block_state(t, dst_rect).cached_read_block_mask \cap dst_rect.block_mask # {} THEN "cached"
                   ELSE IF (get_block_state(t, dst_rect).copy_write_block_mask \cup get_block_state(t, dst_rect).copy_read_block_mask) \cap dst_rect.block_mask # {} \/ get_block_state(t, src_rect).copy_write_block_mask \cap src_rect.block_mask # {} THEN "copy"
                   ELSE "none"
      Resolve(t) == IF Hazard(t) = "none" THEN t
                    ELSE tracker_flush(t, IF Hazard(t) = "render_pass" THEN PAGE_TRACKER_FLUSH_FB_ALL ELSE IF Hazard(t) = "cached" THEN PAGE_TRACKER_FLUSH_CACHE_ALL ELSE PAGE_TRACKER_FLUSH_COPY_ALL, "CopyHazard")
      recd(ps) == [ps EXCEPT !.copy_write_block_mask = @ \cup dst_rect.block_mask, !.texture_cache_needs_invalidate_block_mask = @ \cup dst_rect.block_mask, !.texture_cache_needs_invalidate_write_mask = @ \cup dst_rect.write_mask]
      recs(ps) == [ps EXCEPT !.copy_read_block_mask = @ \cup src_rect.block_mask]
  IN UpdatePages(UpdatePages(Resolve(Log(s, "mark_transfer_copy", <<dst_rect, src_rect>>)), dst_rect, recd), src_rect, recs)

(***************************************************************************)
(* Pixel storage modes and compute_page_rect (gs_util, not among the       *)
(* sources; section 4.1 of the specification).  The block swizzle inside   *)
(* a page is taken row-major.                                              *)
(***************************************************************************)
get_bits_per_pixel(psm) == CASE psm \in {"PSMCT32", "PSMCT24", "PSMZ32", "PSMZ24", "PSMT8H"} -> 32 [] psm \in {"PSMCT16", "PSMZ16"} -> 16 [] psm = "PSMT8" -> 8 [] OTHER -> 4

psm_word_write_mask(psm) == CASE psm \in {"PSMCT24", "PSMZ24"} -> Low24 [] psm = "PSMT8H" -> High8 [] OTHER -> AllBits

PageWidthLog2(psm) == CASE get_bits_per_pixel(psm) = 32 -> 6 [] get_bits_per_pixel(psm) = 16 -> 6 [] OTHER -> 7

PageHeightLog2(psm) == CASE get_bits_per_pixel(psm) = 32 -> 5 [] get_bits_per_pixel(psm) = 16 -> 6 [] get_bits_per_pixel(psm) = 8 -> 6 [] OTHER -> 7

BlockWidthLog2(psm) == CASE get_bits_per_pixel(psm) = 32 -> 3 [] get_bits_per_pixel(psm) = 16 -> 4 [] get_bits_per_pixel(psm) = 8 -> 4 [] OTHER -> 5

BlockHeightLog2(psm) == CASE get_bits_per_pixel(psm) = 32 -> 3 [] OTHER -> 4

Pow2(n) == 2 ^ n

compute_page_rect(base_block, x, y, w, h, stride, psm) ==
  LET pw == Pow2(PageWidthLog2(psm))
      ph == Pow2(PageHeightLog2(psm))
      bw == Pow2(BlockWidthLog2(psm))
      bh == Pow2(BlockHeightLog2(psm))
      bpr == pw \div bw
      x1 == x + Max(w, 1) - 1
      y1 == y + Max(h, 1) - 1
      blocks == {(base_block + ((by % (ph \div bh)) * bpr) + (bx % bpr)) % BLOCKS_PER_PAGE : bx \in (x \div bw)..(x1 \div bw), by \in (y \div bh)..(y1 \div bh)}
      stride_pages == Max((stride * BUFFER_WIDTH_SCALE) \div pw, 1)
  IN [base_page |-> ((base_block \div BLOCKS_PER_PAGE) + (y \div ph) * stride_pages + (x \div pw)) % NumPages,
      page_width |-> (x1 \div pw) - (x \div pw) + 1,
      page_height |-> (y1 \div ph) - (y \div ph) + 1,
      page_stride |-> stride_pages,
      block_mask |-> blocks,
      write_mask |-> psm_word_write_mask(psm)]

(***************************************************************************)
(* Transfer engine: flush_pending_transfer and check_pending_transfer.     *)
(***************************************************************************)
flush_pending_transfer_copy_first(s, keep_alive) ==
  LET ts == s.transfer_state
      dst_rect == compute_page_rect(ts.copy.bitbltbuf.DBP, ts.copy.trxpos.DSAX, ts.copy.trxpos.DSAY, ts.copy.trxreg.RRW, ts.copy.trxreg.RRH, ts.copy.bitbltbuf.DBW, ts.copy.bitbltbuf.DPSM)
      Invalidate(t) == IF InvalidatedTextures(t, t.render_pass.clut_instance) # {}
                       THEN mark_texture_state_dirty(invalidate_texture_cache(t, t.render_pass.clut_instance))
                       ELSE invalidate_texture_cache(t, t.render_pass.clut_instance)
      Copy(t) == [t EXCEPT !.calls = Append(@, Call("copy_vram", [copy |-> ts.copy, host_data |-> ts.host_to_local_payload, host_data_size_offset |-> ts.last_flushed_qwords, host_data_size_required |-> ts.required_qwords])),
                           !.transfer_state.last_flushed_qwords = Len(ts.host_to_local_payload)]
      Submit(t) == IF ts.host_to_local_active /\ Len(ts.host_to_local_payload) > ts.last_flushed_qwords
                   THEN Invalidate(mark_transfer_write(Copy(t), dst_rect))
                   ELSE t
      Retire(t) == IF ~keep_alive
                   THEN [t EXCEPT !.transfer_state.host_to_local_payload = <<>>, !.transfer_state.last_flushed_qwords = 0, !.transfer_state.host_to_local_active = FALSE]
                   ELSE t
  IN Retire(Submit(s))

flush_pending_transfer_retire_only(s, keep_alive) ==
  IF ~keep_alive
  THEN [s EXCEPT !.transfer_state.host_to_local_payload = <<>>, !.transfer_state.last_flushed_qwords = 0, !.transfer_state.host_to_local_active = FALSE]
  ELSE s

flush_pending_transfer_from_start(s, keep_alive) ==
  LET ts == s.transfer_state
      dst_rect == compute_page_rect(ts.copy.bitbltbuf.DBP, ts.copy.trxpos.DSAX, ts.copy.trxpos.DSAY, ts.copy.trxreg.RRW, ts.copy.trxreg.RRH, ts.copy.bitbltbuf.DBW, ts.copy.bitbltbuf.DPSM)
      Invalidate(t) == IF InvalidatedTextures(t, t.render_pass.clut_instance) # {}
                       THEN mark_texture_state_dirty(invalidate_texture_cache(t, t.render_pass.clut_instance))
                       ELSE invalidate_texture_cache(t, t.render_pass.clut_instance)
      Copy(t) == [t EXCEPT !.calls = Append(@, Call("copy_vram", [copy |-> ts.copy, host_data |-> ts.host_to_local_payload, host_data_size_offset |-> 0, host_data_size_required |-> ts.required_qwords])),
                           !.transfer_state.last_flushed_qwords = Len(ts.host_to_local_payload)]
      Submit(t) == IF ts.host_to_local_active /\ Len(ts.host_to_local_payload) > ts.last_flushed_qwords
                   THEN Copy(Invalidate(mark_transfer_write(t, dst_rect)))
                   ELSE t
      Retire(t) == IF ~keep_alive
                   THEN [t EXCEPT !.transfer_state.host_to_local_payload = <<>>, !.transfer_state.last_flushed_qwords = 0, !.transfer_state.host_to_local_active = FALSE]
                   ELSE t
  IN Retire(Submit(s))

flush_pending_transfer(s, keep_alive) ==
  LET ts == s.transfer_state
      dst_rect == compute_page_rect(ts.copy.bitbltbuf.DBP, ts.copy.trxpos.DSAX, ts.copy.trxpos.DSAY, ts.copy.trxreg.RRW, ts.copy.trxreg.RRH, ts.copy.bitbltbuf.DBW, ts.copy.bitbltbuf.DPSM)
      Invalidate(t) == IF InvalidatedTextures(t, t.render_pass.clut_instance) # {}
                       THEN mark_texture_state_dirty(invalidate_texture_cache(t, t.render_pass.clut_instance))
                       ELSE invalidate_texture_cache(t, t.render_pass.clut_instance)
      Copy(t) == [t EXCEPT !.calls = Append(@, Call("copy_vram", [copy |-> ts.copy, host_data |-> ts.host_to_local_payload, host_data_size_offset |-> ts.last_flushed_qwords, host_data_size_required |-> ts.required_qwords])),
                           !.transfer_state.last_flushed_qwords = Len(ts.host_to_local_payload)]
      Submit(t) == IF ts.host_to_local_active /\ Len(ts.host_to_local_payload) > ts.last_flushed_qwords
                   THEN Copy(Invalidate(mark_transfer_write(t, dst_rect)))
                   ELSE t
      Retire(t) == IF ~keep_alive
                   THEN [t EXCEPT !.transfer_state.host_to_local_payload = <<>>, !.transfer_state.last_flushed_qwords = 0, !.transfer_state.host_to_local_active = FALSE]
                   ELSE t
  IN Retire(Submit(s))

check_pending_transfer_late(s) == IF s.transfer_state.host_to_local_active /\ Len(s.transfer_state.host_to_local_payload) > s.transfer_state.required_qwords THEN flush_pending_transfer(s, FALSE) ELSE s

check_pending_transfer(s) == IF s.transfer_state.host_to_local_active /\ Len(s.transfer_state.host_to_local_payload) >= s.transfer_state.required_qwords THEN flush_pending_transfer(s, FALSE) ELSE s

(***************************************************************************)
(* Palette pipeline: GSInterface::handle_clut_upload.                      *)
(* The back-end's update_palette_cache hands out instance numbers round    *)
(* robin over the CLUT instances.                                          *)
(***************************************************************************)
CSM_LAYOUT_RECT == 0

CSM_LAYOUT_LINE == 1

COU_SCALE == 16

update_palette_cache(s, palette_desc) ==
  LET inst == (s.renderer.clut_instance + 1) % CLUTInstances
  IN [Log(s, "update_palette_cache", [desc |-> palette_desc, instance |-> inst]) EXCEPT !.renderer.clut_instance = inst]

LoadClut(s, ctx_index) ==
  LET desc == s.registers.ctx[ctx_index].tex0
  IN CASE desc.CLD = 1 -> TRUE
       [] desc.CLD \in {2, 3} -> TRUE
       [] desc.CLD \in {4, 5} -> s.registers.cached_cbp[(desc.CLD % 2) + 1] # desc.CBP
       [] OTHER -> FALSE

UpdateCachedCBP_on_load_only(s, ctx_index) ==
  LET desc == s.registers.ctx[ctx_index].tex0
  IN IF desc.CLD \in 2..3 THEN [s EXCEPT !.registers.cached_cbp[(desc.CLD % 2) + 1] = desc.CBP] ELSE s

UpdateCachedCBP(s, ctx_index) ==
  LET desc == s.registers.ctx[ctx_index].tex0
  IN IF desc.CLD \in 2..5 THEN [s EXCEPT !.registers.cached_cbp[(desc.CLD % 2) + 1] = desc.CBP] ELSE s

ClutPage(s, ctx_index) ==
  LET desc == s.registers.ctx[ctx_index].tex0
      is_8bit_palette == desc.PSM \in {"PSMT8", "PSMT8H"}
      line == desc.CSM # CSM_LAYOUT_RECT
      palette_width == IF is_8bit_palette THEN (IF line THEN 256 ELSE 16) ELSE (IF line THEN 16 ELSE 8)
      palette_height == IF is_8bit_palette THEN (IF line THEN 1 ELSE 16) ELSE (IF line THEN 1 ELSE 4)
      csa0 == IF is_8bit_palette THEN 0..15 ELSE {desc.CSA}
      csa_mask == IF desc.CPSM = "PSMCT32" THEN csa0 \cup {b + 16 : b \in {c \in csa0 : c + 16 <= 31}} ELSE csa0
      x_offset == IF desc.CSM = CSM_LAYOUT_LINE THEN s.registers.texclut.COU * COU_SCALE ELSE 0
      y_offset == IF desc.CSM = CSM_LAYOUT_LINE THEN s.registers.texclut.COV ELSE 0
      clut_page == compute_page_rect(desc.CBP, x_offset, y_offset, palette_width, palette_height, s.registers.texclut.CBW, desc.CPSM)
  IN [base_page |-> clut_page.base_page, page_width |-> clut_page.page_width, page_height |-> clut_page.page_height, page_stride |-> clut_page.page_stride, block_mask |-> clut_page.block_mask, write_mask |-> clut_page.write_mask, csa_mask |-> csa_mask]

PaletteDesc(s, ctx_index) ==
  LET desc == s.registers.ctx[ctx_index].tex0
      is_8bit_palette == desc.PSM \in {"PSMT8", "PSMT8H"}
  IN [texclut |-> s.registers.texclut, tex0 |-> [desc EXCEPT !.TBP0 = 0, !.TFX = 0, !.TW = 0, !.TH = 0, !.TCC = 0, !.TBW = 0, !.CLD = 0, !.CSA = IF is_8bit_palette THEN 0 ELSE @]]

MemoMatches_never(memoized, page, palette_desc) == FALSE

MemoMatches(memoized, page, palette_desc) == memoized.csa_mask = page.csa_mask /\ memoized.upload.texclut = palette_desc.texclut /\ memoized.upload.tex0 = palette_desc.tex0

FindMemoized_never(ring, i, page, palette_desc) == 0

RECURSIVE FindMemoized(_, _, _, _)
FindMemoized(ring, i, page, palette_desc) ==
  IF i = 0 THEN 0
  ELSE IF ring[i].csa_mask \ page.csa_mask # {} THEN 0
  ELSE IF MemoMatches(ring[i], page, palette_desc) THEN i
  ELSE FindMemoized(ring, i - 1, page, palette_desc)

MoveToEnd(ring, i, entry) == IF i < Len(ring) THEN [j \in 1..Len(ring) |-> IF j < i THEN ring[j] ELSE IF j < Len(ring) THEN ring[j + 1] ELSE entry] ELSE ring

Ret(s, r) == [s |-> s, r |-> r]

MemoizeRing_unbounded(ring, entry) == Append(ring, entry)

MemoizeRing(ring, entry) == Append(IF Len(ring) = NumMemoizedPalettes THEN Tail(ring) ELSE ring, entry)

(***************************************************************************)
(* handle_clut_upload up to its last statement: the CLD switch, the CLUT   *)
(* page read, the memoization look-up and, on a miss, the upload and the   *)
(* sliding window.  The value returned with the object tells which of the  *)
(* three returns was taken; the Overflow flush of the last statement is    *)
(* UploadOverflow.                                                         *)
(***************************************************************************)
MemoizeUpload(s, ctx_index) ==
  LET load_clut == LoadClut(s, ctx_index)
      FlushPartial(t) == IF t.transfer_state.host_to_local_active /\ Len(t.transfer_state.host_to_local_payload) > t.transfer_state.last_flushed_qwords
                         THEN flush_pending_transfer(t, TRUE)
                         ELSE t
      ReadClut(t) == register_cached_clut_clobber(mark_texture_read(t, ClutPage(t, ctx_index)), ClutPage(t, ctx_index))
      Hit(t, page, palette_desc, ring, i) ==
        [t EXCEPT !.state_tracker.last_texture_index = IF ring[i].clut_instance # t.render_pass.clut_instance THEN NoIndex ELSE @,
                  !.state_tracker.dirty_flags = IF ring[i].clut_instance # t.render_pass.clut_instance THEN @ \cup {"PRIM_TEMPLATE", "TEX"} ELSE @,
                  !.render_pass.clut_instance = ring[i].clut_instance,
                  !.render_pass.memoized_palettes = MoveToEnd(ring, i, [csa_mask |-> page.csa_mask, upload |-> palette_desc, clut_instance |-> ring[i].clut_instance])]
      Register(t, page, palette_desc, ring) ==
        [mark_texture_state_dirty(t) EXCEPT !.render_pass.clut_instance = t.renderer.clut_instance,
                                            !.render_pass.latest_clut_instance = t.renderer.clut_instance,
                                            !.render_pass.pending_palette_updates = @ + 1,
                                            !.render_pass.memoized_palettes = MemoizeRing(ring, [csa_mask |-> page.csa_mask, upload |-> palette_desc, clut_instance |-> t.renderer.clut_instance])]
      Miss(t, page, palette_desc, ring) == Ret(Register(update_palette_cache(t, palette_desc), page, palette_desc, ring), "miss")
      Lookup(t, page, palette_desc, ring) ==
        IF FindMemoized(ring, Len(ring), page, palette_desc) # 0
        THEN Ret(Hit(t, page, palette_desc, ring, FindMemoized(ring, Len(ring), page, palette_desc)), "hit")
        ELSE Miss(t, page, palette_desc, ring)
      Memoize(t) == Lookup(t, ClutPage(t, ctx_index), PaletteDesc(t, ctx_index), t.render_pass.memoized_palettes)
      Upload(t) == IF ~load_clut THEN Ret(t, "none") ELSE Memoize(ReadClut(FlushPartial(t)))
  IN Upload(UpdateCachedCBP(s, ctx_index))

UploadOverflow(d) == IF d.r = "miss" /\ d.s.render_pass.pending_palette_updates >= CLUTInstances THEN tracker_flush_render_pass(d.s, "Overflow") ELSE d.s

handle_clut_upload(s, ctx_index) == UploadOverflow(MemoizeUpload(s, ctx_index))

handle_tex0_write(s, ctx_index) == handle_clut_upload(s, ctx_index)

(***************************************************************************)
(* Drawing-kick pipeline.  An operator that returns a value and changes    *)
(* the object returns the record [s |-> object after, r |-> value].        *)
(***************************************************************************)

Ctx(s) == s.registers.ctx[s.registers.prim.CTXT]

DirtyFlag(s, flag) == flag \in s.state_tracker.dirty_flags

ClearDirtyFlag(s, flag) == [s EXCEPT !.state_tracker.dirty_flags = @ \ {flag}]

get_and_clear_dirty_flag(s, flag) == Ret(ClearDirtyFlag(s, flag), DirtyFlag(s, flag))

FrameWord0(frame) == <<frame.FBP, frame.FBW, frame.PSM>>

fb_delta_of(s) == FrameWord0(s.render_pass.frame) # FrameWord0(Ctx(s).frame)

z_delta_of(s) == s.render_pass.zbuf.PSM # Ctx(s).zbuf.PSM \/ s.render_pass.zbuf.ZBP # Ctx(s).zbuf.ZBP

check_frame_buffer_state_frame_only(s) ==
  LET fb_delta == fb_delta_of(s)
      z_delta == z_delta_of(s)
      Flush(t) == IF t.render_pass.primitive_count # 0 /\ fb_delta
                  THEN tracker_flush_render_pass(flush_pending_transfer(t, TRUE), "FBPointer")
                  ELSE t
      CopyFrame(t) == IF fb_delta
                      THEN [t EXCEPT !.render_pass.fb_page_width_log2 = PageWidthLog2(Ctx(s).frame.PSM), !.render_pass.fb_page_height_log2 = PageHeightLog2(Ctx(s).frame.PSM), !.render_pass.frame = Ctx(s).frame]
                      ELSE t
      CopyZ(t) == IF z_delta
                  THEN [t EXCEPT !.render_pass.z_page_width_log2 = PageWidthLog2(Ctx(s).zbuf.PSM), !.render_pass.z_page_height_log2 = PageHeightLog2(Ctx(s).zbuf.PSM), !.render_pass.zbuf = Ctx(s).zbuf]
                  ELSE t
  IN IF ~DirtyFlag(s, "FB") THEN s ELSE CopyZ(CopyFrame(Flush(ClearDirtyFlag(s, "FB"))))

check_frame_buffer_state(s) ==
  LET fb_delta == fb_delta_of(s)
      z_delta == z_delta_of(s)
      Flush(t) == IF t.render_pass.primitive_count # 0 /\ (fb_delta \/ (t.render_pass.z_sensitive /\ z_delta))
                  THEN tracker_flush_render_pass(flush_pending_transfer(t, TRUE), "FBPointer")
                  ELSE t
      CopyFrame(t) == IF fb_delta
                      THEN [t EXCEPT !.render_pass.fb_page_width_log2 = PageWidthLog2(Ctx(s).frame.PSM), !.render_pass.fb_page_height_log2 = PageHeightLog2(Ctx(s).frame.PSM), !.render_pass.frame = Ctx(s).frame]
                      ELSE t
      CopyZ(t) == IF z_delta
                  THEN [t EXCEPT !.render_pass.z_page_width_log2 = PageWidthLog2(Ctx(s).zbuf.PSM), !.render_pass.z_page_height_log2 = PageHeightLog2(Ctx(s).zbuf.PSM), !.render_pass.zbuf = Ctx(s).zbuf]
                  ELSE t
  IN IF ~DirtyFlag(s, "FB") THEN s ELSE CopyZ(CopyFrame(Flush(ClearDirtyFlag(s, "FB"))))

StateVectorIndex(s, state) == IF \E e \in s.render_pass.state_vector_map : e.hash = state THEN (CHOOSE e \in s.render_pass.state_vector_map : e.hash = state).index ELSE NoIndex

find_or_place_unique_state_vector_always_places(s, state) ==
  Ret([s EXCEPT !.render_pass.state_vectors = Append(@, state),
                !.render_pass.state_vector_map = @ \cup {[hash |-> state, index |-> Len(s.render_pass.state_vectors)]},
                !.state_tracker.last_state_vector = state,
                !.state_tracker.last_state_index = Len(s.render_pass.state_vectors)],
      Len(s.render_pass.state_vectors))

find_or_place_unique_state_vector(s, state) ==
  LET cached == StateVectorIndex(s, state)
      placed == [s EXCEPT !.render_pass.state_vectors = Append(@, state), !.render_pass.state_vector_map = @ \cup {[hash |-> state, index |-> Len(s.render_pass.state_vectors)]}]
      s1 == IF cached # NoIndex THEN s ELSE placed
      state_index == IF cached # NoIndex THEN cached ELSE Len(s.render_pass.state_vectors)
  IN IF s.render_pass.state_vectors # <<>> /\ state = s.state_tracker.last_state_vector
     THEN Ret(s, s.state_tracker.last_state_index)
     ELSE Ret([s1 EXCEPT !.state_tracker.last_state_vector = state, !.state_tracker.last_state_index = state_index], state_index)

ATST_NEVER == 0

ATST_ALWAYS == 1

AFAIL_KEEP == 0

ZTE_ENABLED == 1

ZTST_NEVER == 0

ZTST_GREATER == 3

has_z_test(test) == test.ZTST \in {2, 3}

BuildStateVector(s) ==
  LET prim == s.registers.prim
      ctx == Ctx(s)
      ate == ctx.test.ATE # 0 /\ ctx.test.ATST # ATST_ALWAYS
  IN [blend_mode |-> [ATE |-> ate, ATST |-> IF ate THEN ctx.test.ATST ELSE 0, AFAIL |-> IF ate THEN ctx.test.AFAIL ELSE 0, DATE |-> ctx.test.DATE # 0, DATM |-> ctx.test.DATM # 0, ABE |-> prim.ABE # 0],
      combiner |-> [TME |-> prim.TME # 0, TCC |-> prim.TME # 0 /\ ctx.tex0.TCC # 0, TFX |-> IF prim.TME # 0 THEN ctx.tex0.TFX ELSE 0, FOG |-> prim.FGE # 0],
      dimx |-> <<0, 0>>]

drawing_kick_update_state_vector_cached(s) == Ret(ClearDirtyFlag(s, "STATE"), s.state_tracker.last_state_index)

drawing_kick_update_state_vector(s) ==
  IF ~DirtyFlag(s, "STATE") THEN Ret(s, s.state_tracker.last_state_index)
  ELSE find_or_place_unique_state_vector(ClearDirtyFlag(s, "STATE"), BuildStateVector(s))

(***************************************************************************)
(* Texture descriptor commit.  TEX1, CLAMP, TEXA and MIPTBP are constant   *)
(* zero here, so the normalized descriptor is TEX0, the palette banks and  *)
(* the effective rectangle; its hash is the descriptor without the         *)
(* rectangle and the latest palette bank, as in the source.                *)
(***************************************************************************)
is_palette_format(psm) == psm \in {"PSMT8", "PSMT4", "PSMT8H", "PSMT4HL", "PSMT4HH"}

swizzle_compat_key(psm) == CASE psm \in {"PSMCT32", "PSMCT24", "PSMT8H", "PSMT4HL", "PSMT4HH"} -> "32" [] psm \in {"PSMZ32", "PSMZ24"} -> "Z32" [] OTHER -> psm

ShiftLeftMask(mask, n) == {b + n : b \in {c \in mask : c + n <= 31}}

TextureCsaMask(tex0) ==
  LET base == IF tex0.PSM \in {"PSMT8", "PSMT8H"} THEN 0..15 ELSE {0}
      shifted == ShiftLeftMask(base, tex0.CSA)
  IN IF ~is_palette_format(tex0.PSM) THEN {}
     ELSE IF tex0.CPSM = "PSMCT32" THEN shifted \cup ShiftLeftMask(shifted, 16) ELSE shifted

compute_effective_texture_rect(tex0) == [x |-> 0, y |-> 0, width |-> Pow2(tex0.TW), height |-> Pow2(tex0.TH), levels |-> 1]

TextureDesc(s) ==
  LET tex0 == Ctx(s).tex0
      pal == is_palette_format(tex0.PSM)
      n0 == [tex0 EXCEPT !.TCC = 0, !.TFX = 0, !.CBP = 0, !.CSM = 0, !.CLD = 0, !.CPSM = IF pal THEN @ ELSE "PSMCT32", !.CSA = IF pal THEN @ ELSE 0]
  IN [tex0 |-> n0, palette_bank |-> IF pal THEN s.render_pass.clut_instance ELSE 0, latest_palette_bank |-> IF pal THEN s.render_pass.latest_clut_instance ELSE 0, rect |-> compute_effective_texture_rect(n0)]

TextureHash(desc) == [tex0 |-> desc.tex0, palette_bank |-> desc.palette_bank]

mark_render_pass_has_texture_feedback(s, tex0) ==
  LET Flush(t) == IF t.render_pass.has_color_feedback /\ (tex0.PSM # t.render_pass.feedback_psm \/ (is_palette_format(t.render_pass.feedback_psm) /\ t.render_pass.feedback_cpsm # tex0.CPSM))
                  THEN tracker_flush_render_pass(t, "TextureHazard")
                  ELSE t
      Mark(t) == IF ~t.render_pass.has_color_feedback
                 THEN [t EXCEPT !.render_pass.has_color_feedback = TRUE, !.render_pass.feedback_psm = tex0.PSM, !.render_pass.feedback_cpsm = IF is_palette_format(tex0.PSM) THEN tex0.CPSM ELSE "PSMCT32"]
                 ELSE t
  IN Mark(Flush(s))

PotentialFeedbackRect(s) ==
  LET ctx == Ctx(s)
      tex_base_page == ctx.tex0.TBP0 \div BLOCKS_PER_PAGE
      fb0 == ctx.frame.FBP
      fb_base_page == IF fb0 <= tex_base_page THEN fb0 + NumPages ELSE fb0
      z0 == ctx.zbuf.ZBP
      z_base_page == IF z0 <= tex_base_page THEN z0 + NumPages ELSE z0
      w0 == NumPages
      w1 == IF s.render_pass.is_potential_color_feedback THEN Min(w0, fb_base_page - tex_base_page) ELSE w0
      w2 == IF s.render_pass.is_potential_depth_feedback THEN Min(w1, z_base_page - tex_base_page) ELSE w1
  IN [base_page |-> tex_base_page, page_width |-> w2, page_height |-> 1, page_stride |-> 0, block_mask |-> AllBits, write_mask |-> AllBits]

update_texture_page_rects_and_read(s) ==
  LET tex == s.state_tracker.tex
      rect == IF s.render_pass.is_potential_color_feedback \/ s.render_pass.is_potential_depth_feedback
              THEN PotentialFeedbackRect(s)
              ELSE compute_page_rect(tex.levels[1].base, tex.rect.x, tex.rect.y, tex.rect.width, tex.rect.height, tex.levels[1].stride, Ctx(s).tex0.PSM)
      Store(t) == [t EXCEPT !.state_tracker.tex.page_rects = <<rect>>]
  IN IF tex.rect.levels = 0 THEN s ELSE mark_texture_read(Store(s), rect)

texture_page_rects_read(s) == IF s.state_tracker.tex.rect.levels = 0 THEN s ELSE mark_texture_read(s, s.state_tracker.tex.page_rects[1])

create_cached_texture(s, desc) == Log(s, "create_cached_texture", desc)

TextureMapEntry(s, hash) == IF \E e \in s.render_pass.texture_map : e.hash = hash THEN CHOOSE e \in s.render_pass.texture_map : e.hash = hash ELSE [hash |-> hash, index |-> NoIndex, valid |-> FALSE]

CacheTexture(s, feedback_mode) == IF feedback_mode = "Sliced" THEN s.registers.prim.PRIM = 6 ELSE TRUE

drawing_kick_update_texture(s, feedback_mode) ==
  LET ctx == Ctx(s)
      desc == TextureDesc(s)
      hash == TextureHash(desc)
      cache_texture == CacheTexture(s, feedback_mode)
      Result(t, index) == Ret(t, [index |-> index, feedback |-> FALSE])
      Remember(t, index) == Result([t EXCEPT !.state_tracker.last_texture_descriptor = desc, !.state_tracker.last_texture_index = index], index)
      Prepare(t) == [t EXCEPT !.state_tracker.tex.rect = desc.rect, !.state_tracker.tex.levels = <<[base |-> desc.tex0.TBP0, stride |-> desc.tex0.TBW]>>]
      ReadCached(t) == IF cache_texture THEN update_texture_page_rects_and_read(t) ELSE t
      ReadUncached(t) == IF ~cache_texture THEN update_texture_page_rects_and_read(t) ELSE t
      Create(t) == IF find_cached_texture(t, hash) THEN t
                   ELSE IF cache_texture
                   THEN register_cached_texture(create_cached_texture(t, desc), t.state_tracker.tex.page_rects, TextureCsaMask(desc.tex0), t.render_pass.clut_instance, hash)
                   ELSE create_cached_texture(t, desc)
      Insert(t, cached_index) ==
        Remember([t EXCEPT !.render_pass.texture_map = (@ \ {TextureMapEntry(t, hash)}) \cup {[hash |-> hash, index |-> Len(t.render_pass.tex_infos), valid |-> TRUE]},
                           !.render_pass.tex_infos = Append(@, desc),
                           !.render_pass.held_images = Append(@, hash),
                           !.fault = IF cached_index.index # NoIndex /\ cached_index \notin t.render_pass.texture_map THEN "texture_map entry used after clear" ELSE @],
                 Len(t.render_pass.tex_infos))
      Place(t, cached_index) == IF cached_index.index # NoIndex /\ cached_index.valid
                                THEN Remember(t, cached_index.index)
                                ELSE Insert(Create(ReadUncached(t)), cached_index)
      Lookup(t) == IF t.state_tracker.last_texture_index # NoIndex /\ t.render_pass.tex_infos # <<>> /\ t.state_tracker.last_texture_descriptor = desc
                   THEN Result(t, t.state_tracker.last_texture_index)
                   ELSE Place(t, TextureMapEntry(t, hash))
      Pixel(t) == Ret(t, [index |-> t.render_pass.clut_instance * 32 + ctx.tex0.CSA, feedback |-> TRUE])
  IN IF ~DirtyFlag(s, "TEX") THEN Result(s, s.state_tracker.last_texture_index)
     ELSE IF feedback_mode = "Pixel" THEN Pixel(mark_render_pass_has_texture_feedback(ClearDirtyFlag(s, "TEX"), ctx.tex0))
     ELSE Lookup(ReadCached(Prepare(ClearDirtyFlag(s, "TEX"))))

TEX1_LINEAR == 1

SamplerFlags(tex1) ==
  (IF tex1.MMAG = TEX1_LINEAR THEN {"MAG_LINEAR"} ELSE {})
  \cup (IF tex1.MMIN \in {1, 4, 5} THEN {"MIN_LINEAR"} ELSE {})
  \cup (IF tex1.MMIN \in {3, 5} THEN {"MIPMAP_LINEAR"} ELSE {})

drawing_kick_update_state(s, feedback_mode) ==
  LET prim == s.registers.prim
      ZBits(ctx) == IF ctx.test.ZTE = ZTE_ENABLED
                    THEN (IF has_z_test(ctx.test) THEN {"Z_TEST"} \cup (IF ctx.test.ZTST = ZTST_GREATER THEN {"Z_TEST_GREATER"} ELSE {}) ELSE {}) \cup (IF ctx.zbuf.ZMSK = 0 THEN {"Z_WRITE"} ELSE {})
                    ELSE {}
      NeedsPreviousPixels(t, ctx) == (ctx.test.ATE # 0 /\ ctx.test.ATST # ATST_ALWAYS) \/ ctx.test.DATE # 0 \/ ctx.frame.FBMSK # {} \/ t.render_pass.is_color_feedback
      PrimStateBits(t, ctx) == ZBits(ctx) \cup (IF ~NeedsPreviousPixels(t, ctx) THEN {"OPAQUE"} ELSE {}) \cup (IF prim.AA1 # 0 THEN {"MULTISAMPLE"} ELSE {}) \cup (IF prim.FST = 0 THEN {"PERSPECTIVE"} ELSE {}) \cup (IF prim.IIP # 0 THEN {"IIP"} ELSE {}) \cup (IF prim.FIX # 0 THEN {"FIX"} ELSE {})
      Template(sv, tex) == [sv.s EXCEPT !.state_tracker.prim_template = [tex |-> [index |-> tex.index, feedback |-> tex.feedback, flags |-> IF prim.TME # 0 THEN SamplerFlags(Ctx(sv.s).tex1) ELSE {}], tex2 |-> IF prim.TME # 0 THEN [LCM |-> Ctx(sv.s).tex1.LCM, L |-> Ctx(sv.s).tex1.L, K |-> Ctx(sv.s).tex1.K] ELSE PrimTemplateZero.tex2, state |-> [index |-> sv.r, bits |-> PrimStateBits(sv.s, Ctx(sv.s))]],
                                        !.render_pass.has_aa1 = @ \/ prim.AA1 # 0]
      Vector(tx) == Template(drawing_kick_update_state_vector(tx.s), tx.r)
  IN IF ~DirtyFlag(s, "PRIM_TEMPLATE") THEN s
     ELSE Vector(IF prim.TME # 0 THEN drawing_kick_update_texture(ClearDirtyFlag(s, "PRIM_TEMPLATE"), feedback_mode)
                 ELSE Ret(ClearDirtyFlag(s, "PRIM_TEMPLATE"), [index |-> 0, feedback |-> FALSE]))

BBShift(bb, wlog2, hlog2) == [x |-> bb.x \div Pow2(wlog2), y |-> bb.y \div Pow2(hlog2), z |-> bb.z \div Pow2(wlog2), w |-> bb.w \div Pow2(hlog2)]

compute_fb_rect_of_extent(s, bb) ==
  LET bb_page == BBShift(bb, s.render_pass.fb_page_width_log2, s.render_pass.fb_page_height_log2)
      extent == BBShift([x |-> 0, y |-> 0, z |-> bb.z - bb.x, w |-> bb.w - bb.y], s.render_pass.fb_page_width_log2, s.render_pass.fb_page_height_log2)
      stride == s.render_pass.frame.FBW
  IN [base_page |-> s.render_pass.frame.FBP + bb_page.x + bb_page.y * stride, page_width |-> extent.z + 1, page_height |-> extent.w + 1, page_stride |-> stride, block_mask |-> AllBits, write_mask |-> psm_word_write_mask(s.render_pass.frame.PSM)]

compute_fb_rect(s, bb) ==
  LET bb_page == BBShift(bb, s.render_pass.fb_page_width_log2, s.render_pass.fb_page_height_log2)
      stride == s.render_pass.frame.FBW
  IN [base_page |-> s.render_pass.frame.FBP + bb_page.x + bb_page.y * stride, page_width |-> bb_page.z - bb_page.x + 1, page_height |-> bb_page.w - bb_page.y + 1, page_stride |-> stride, block_mask |-> AllBits, write_mask |-> psm_word_write_mask(s.render_pass.frame.PSM)]

compute_z_rect(s, bb) ==
  LET bb_page == BBShift(bb, s.render_pass.z_page_width_log2, s.render_pass.z_page_height_log2)
      stride == s.render_pass.frame.FBW
  IN [base_page |-> s.render_pass.zbuf.ZBP + bb_page.x + bb_page.y * stride, page_width |-> bb_page.z - bb_page.x + 1, page_height |-> bb_page.w - bb_page.y + 1, page_stride |-> stride, block_mask |-> AllBits, write_mask |-> psm_word_write_mask(s.render_pass.zbuf.PSM)]

DegenerateState(s) ==
  LET ctx == Ctx(s)
      read_only_depth == ctx.zbuf.ZMSK # 0 \/ ctx.test.ZTE = 0
      read_only_color == ctx.frame.FBMSK = AllBits
  IN \/ ctx.scissor.SCAX0 > ctx.scissor.SCAX1 \/ ctx.scissor.SCAY0 > ctx.scissor.SCAY1
     \/ ctx.test.ZTE = ZTE_ENABLED /\ ctx.test.ZTST = ZTST_NEVER
     \/ ctx.test.ATE # 0 /\ ctx.test.ATST = ATST_NEVER /\ ctx.test.AFAIL = AFAIL_KEEP
     \/ read_only_color /\ read_only_depth

draw_is_degenerate_stale(s) == Ret(ClearDirtyFlag(s, "DEGENERATE"), s.state_tracker.degenerate_draw)

draw_is_degenerate(s) ==
  IF ~DirtyFlag(s, "DEGENERATE") THEN Ret(s, s.state_tracker.degenerate_draw)
  ELSE Ret([ClearDirtyFlag(s, "DEGENERATE") EXCEPT !.state_tracker.degenerate_draw = DegenerateState(s)], DegenerateState(s))

state_is_z_sensitive(s) == Ctx(s).test.ZTE = ZTE_ENABLED /\ (has_z_test(Ctx(s).test) \/ Ctx(s).zbuf.ZMSK = 0)

TexturePageCount(tex0) ==
  LET w == Pow2(tex0.TW)
      h == Pow2(tex0.TH)
      cols == Max(w \div Pow2(PageWidthLog2(tex0.PSM)), 1)
      rows == Max(h \div Pow2(PageHeightLog2(tex0.PSM)), 1)
  IN Max((tex0.TBW * BUFFER_WIDTH_SCALE) \div Pow2(PageWidthLog2(tex0.PSM)), 1) * (rows - 1) + cols

compute_has_potential_feedback(tex0, fbp, num_pages) == \E k \in 1..(TexturePageCount(tex0) - 1) : ((tex0.TBP0 \div BLOCKS_PER_PAGE) + k) % num_pages = fbp

update_color_feedback_state(s) ==
  LET prim == s.registers.prim
      ctx == Ctx(s)
      s0 == [ClearDirtyFlag(s, "FEEDBACK") EXCEPT !.render_pass.is_color_feedback = FALSE, !.render_pass.is_potential_color_feedback = FALSE, !.render_pass.is_potential_depth_feedback = FALSE]
      has_z_write == s0.render_pass.z_write \/ (state_is_z_sensitive(s0) /\ ctx.zbuf.ZMSK = 0)
      tex_write_mask == psm_word_write_mask(ctx.tex0.PSM)
      pot_color == compute_has_potential_feedback(ctx.tex0, ctx.frame.FBP, NumPages) /\ tex_write_mask \cap psm_word_write_mask(s0.render_pass.frame.PSM) # {}
      pot_depth == compute_has_potential_feedback(ctx.tex0, ctx.zbuf.ZBP, NumPages) /\ tex_write_mask \cap psm_word_write_mask(s0.render_pass.zbuf.PSM) # {} /\ has_z_write
  IN IF ~DirtyFlag(s, "FEEDBACK")
     THEN (IF s.render_pass.is_color_feedback THEN [s EXCEPT !.state_tracker.dirty_flags = @ \cup {"PRIM_TEMPLATE", "TEX"}] ELSE s)
     ELSE IF prim.TME = 0 THEN s0
     ELSE IF ctx.tex0.TBP0 # ctx.frame.FBP * BLOCKS_PER_PAGE
          THEN [s0 EXCEPT !.render_pass.is_potential_color_feedback = pot_color, !.render_pass.is_potential_depth_feedback = pot_depth]
     ELSE IF ctx.tex0.TBW # ctx.frame.FBW THEN s0
     ELSE IF swizzle_compat_key(ctx.tex0.PSM) # swizzle_compat_key(ctx.frame.PSM) THEN s0
     ELSE IF ctx.frame.FBW * BUFFER_WIDTH_SCALE > Pow2(ctx.tex0.TW) THEN s0
     ELSE IF ctx.scissor.SCAY1 >= Pow2(ctx.tex0.TH) THEN s0
     ELSE [s0 EXCEPT !.render_pass.is_color_feedback = TRUE, !.state_tracker.dirty_flags = @ \cup {"PRIM_TEMPLATE", "TEX"}]

SetMin(S) == CHOOSE m \in S : \A x \in S : m <= x

SetMax(S) == CHOOSE m \in S : \A x \in S : m >= x

VertexUV(s, a) ==
  LET tex0 == Ctx(s).tex0
  IN IF s.registers.prim.FST # 0 THEN a.uv
     ELSE [U |-> IF a.q = 0 THEN 0 ELSE (Pow2(tex0.TW) * Pow2(SUBPIXEL_BITS) * a.st.S) \div a.q, V |-> IF a.q = 0 THEN 0 ELSE (Pow2(tex0.TH) * Pow2(SUBPIXEL_BITS) * a.st.T) \div a.q]

deduce_color_feedback_mode_any_filter(s, quad, num_vertices, pos, attr) ==
  LET n == IF quad THEN 2 ELSE 3
      needs_perspective == s.registers.prim.FST = 0 /\ ~quad /\ Cardinality({attr[i].q : i \in 1..3}) > 1
      deltas == UNION {{VertexUV(s, attr[i]).U - pos[i].x, VertexUV(s, attr[i]).V - pos[i].y} : i \in 1..n}
  IN IF ~(num_vertices = 3 \/ (quad /\ num_vertices = 2)) THEN "None"
     ELSE IF needs_perspective THEN "Sliced"
     ELSE IF SetMin(deltas) < 0 \/ SetMax(deltas) >= Pow2(SUBPIXEL_BITS) THEN "Sliced"
     ELSE "Pixel"

deduce_color_feedback_mode(s, quad, num_vertices, pos, attr) ==
  LET n == IF quad THEN 2 ELSE 3
      needs_perspective == s.registers.prim.FST = 0 /\ ~quad /\ Cardinality({attr[i].q : i \in 1..3}) > 1
      deltas == UNION {{VertexUV(s, attr[i]).U - pos[i].x, VertexUV(s, attr[i]).V - pos[i].y} : i \in 1..n}
  IN IF ~(num_vertices = 3 \/ (quad /\ num_vertices = 2)) THEN "None"
     ELSE IF needs_perspective \/ Ctx(s).tex1.MMAG = TEX1_LINEAR THEN "Sliced"
     ELSE IF SetMin(deltas) < 0 \/ SetMax(deltas) >= Pow2(SUBPIXEL_BITS) THEN "Sliced"
     ELSE "Pixel"

(***************************************************************************)
(* drawing_kick_append<list, fan, quad, num_vertices>.  XYOFFSET is never  *)
(* written by the modelled commands, so off_x = off_y = 0.  The slots of   *)
(* pos[] and attr[] the primitive does not use are uninitialised in the    *)
(* code; the model stores only the slots the primitive defines.            *)
(***************************************************************************)
AppendVertices(s, num_vertices) ==
  LET q == s.vertex_queue
      p0 == q.pos[q.count]
      point0 == [p0 EXCEPT !.x = @ - Pow2(SUBPIXEL_BITS - 1), !.y = @ - Pow2(SUBPIXEL_BITS - 1)]
  IN IF num_vertices = 1
     THEN [pos |-> <<point0, [point0 EXCEPT !.x = @ + Pow2(SUBPIXEL_BITS), !.y = @ + Pow2(SUBPIXEL_BITS)]>>, attr |-> <<q.attr[q.count]>>]
     ELSE IF num_vertices = 2
     THEN [pos |-> <<q.pos[q.count], q.pos[q.count - 1]>>, attr |-> <<q.attr[q.count], q.attr[q.count - 1]>>]
     ELSE [pos |-> <<q.pos[3], q.pos[2], q.pos[1]>>, attr |-> <<q.attr[3], q.attr[2], q.attr[1]>>]

PrimitiveBBLoose(s, quad, num_vertices, pos) ==
  LET ctx == Ctx(s)
      is_line == ~quad /\ num_vertices = 2
      n == IF ~quad /\ ~is_line THEN 3 ELSE 2
      grow == IF is_line THEN 1 ELSE 0
      lo_x == (SetMin({pos[i].x : i \in 1..n}) \div Pow2(SUBPIXEL_BITS)) - grow
      lo_y == (SetMin({pos[i].y : i \in 1..n}) \div Pow2(SUBPIXEL_BITS)) - grow
      hi_x == ((SetMax({pos[i].x : i \in 1..n}) - 1) \div Pow2(SUBPIXEL_BITS)) + grow
      hi_y == ((SetMax({pos[i].y : i \in 1..n}) - 1) \div Pow2(SUBPIXEL_BITS)) + grow
  IN [x |-> Max(lo_x, ctx.scissor.SCAX0), y |-> Max(lo_y, ctx.scissor.SCAY0),
      z |-> Min(Min(hi_x, ctx.scissor.SCAX1), ctx.frame.FBW * BUFFER_WIDTH_SCALE - 1), w |-> Min(hi_y, ctx.scissor.SCAY1)]

PrimitiveBB_scissor_only(s, quad, num_vertices, pos) ==
  LET ctx == Ctx(s)
      is_line == ~quad /\ num_vertices = 2
      n == IF ~quad /\ ~is_line THEN 3 ELSE 2
      tighten == IF quad \/ s.registers.prim.AA1 = 0 THEN Pow2(SUBPIXEL_BITS - s.sampling_rate_y_log2) - 1 ELSE 0
      grow == IF is_line THEN 1 ELSE 0
      lo_x == ((SetMin({pos[i].x : i \in 1..n}) + tighten) \div Pow2(SUBPIXEL_BITS)) - grow
      lo_y == ((SetMin({pos[i].y : i \in 1..n}) + tighten) \div Pow2(SUBPIXEL_BITS)) - grow
      hi_x == ((SetMax({pos[i].x : i \in 1..n}) - 1) \div Pow2(SUBPIXEL_BITS)) + grow
      hi_y == ((SetMax({pos[i].y : i \in 1..n}) - 1) \div Pow2(SUBPIXEL_BITS)) + grow
  IN [x |-> Max(lo_x, ctx.scissor.SCAX0), y |-> Max(lo_y, ctx.scissor.SCAY0), z |-> Min(hi_x, ctx.scissor.SCAX1), w |-> Min(hi_y, ctx.scissor.SCAY1)]

PrimitiveBB(s, quad, num_vertices, pos) ==
  LET ctx == Ctx(s)
      is_line == ~quad /\ num_vertices = 2
      n == IF ~quad /\ ~is_line THEN 3 ELSE 2
      tighten == IF quad \/ s.registers.prim.AA1 = 0 THEN Pow2(SUBPIXEL_BITS - s.sampling_rate_y_log2) - 1 ELSE 0
      grow == IF is_line THEN 1 ELSE 0
      lo_x == ((SetMin({pos[i].x : i \in 1..n}) + tighten) \div Pow2(SUBPIXEL_BITS)) - grow
      lo_y == ((SetMin({pos[i].y : i \in 1..n}) + tighten) \div Pow2(SUBPIXEL_BITS)) - grow
      hi_x == ((SetMax({pos[i].x : i \in 1..n}) - 1) \div Pow2(SUBPIXEL_BITS)) + grow
      hi_y == ((SetMax({pos[i].y : i \in 1..n}) - 1) \div Pow2(SUBPIXEL_BITS)) + grow
  IN [x |-> Max(lo_x, ctx.scissor.SCAX0), y |-> Max(lo_y, ctx.scissor.SCAY0),
      z |-> Min(Min(hi_x, ctx.scissor.SCAX1), ctx.frame.FBW * BUFFER_WIDTH_SCALE - 1), w |-> Min(hi_y, ctx.scissor.SCAY1)]

PrimitiveStateBits(bits, quad, num_vertices) ==
  LET is_line == ~quad /\ num_vertices = 2
      b1 == IF quad THEN (bits \cup {"PARALLELOGRAM", "SPRITE", "SNAP_RASTER"}) \ {"MULTISAMPLE"}
            ELSE IF is_line THEN (bits \cup {"PARALLELOGRAM", "LINE"}) \ (IF "MULTISAMPLE" \in bits THEN {"Z_WRITE"} ELSE {})
            ELSE bits
  IN IF num_vertices = 1 THEN b1 \cup {"FIX", "SNAP_RASTER"} ELSE b1

ExpandRenderPass_box_only(s, bb) ==
  LET ctx == Ctx(s)
      rp == s.render_pass
      is_z_sensitive == state_is_z_sensitive(s)
      z_write_first == is_z_sensitive /\ ctx.zbuf.ZMSK = 0 /\ ~rp.z_write
      new_bb == [x |-> Min(bb.x, rp.bb.x), y |-> Min(bb.y, rp.bb.y), z |-> Max(bb.z, rp.bb.z), w |-> Max(bb.w, rp.bb.w)]
      Grow(t) == [t EXCEPT !.render_pass.z_sensitive = @ \/ is_z_sensitive,
                           !.render_pass.z_write = @ \/ z_write_first,
                           !.state_tracker.dirty_flags = IF z_write_first THEN @ \cup {"FEEDBACK"} ELSE @,
                           !.render_pass.color_write_mask = @ \cup (AllBits \ ctx.frame.FBMSK),
                           !.render_pass.bb = new_bb]
      MarkColor(t) == mark_fb_write(t, [compute_fb_rect(t, t.render_pass.bb) EXCEPT !.write_mask = @ \cap t.render_pass.color_write_mask])
      MarkDepth(t) == IF ~t.render_pass.z_sensitive THEN t
                      ELSE IF t.render_pass.z_write THEN mark_fb_write(t, compute_z_rect(t, t.render_pass.bb))
                      ELSE mark_fb_read(t, compute_z_rect(t, t.render_pass.bb))
  IN IF new_bb # rp.bb THEN MarkDepth(MarkColor(Grow(s))) ELSE Grow(s)

ExpandRenderPass(s, bb) ==
  LET ctx == Ctx(s)
      rp == s.render_pass
      is_z_sensitive == state_is_z_sensitive(s)
      z_first == ~rp.z_sensitive /\ is_z_sensitive
      z_write_first == is_z_sensitive /\ ctx.zbuf.ZMSK = 0 /\ ~rp.z_write
      write_mask == AllBits \ ctx.frame.FBMSK
      mask_grows == ~(write_mask \subseteq rp.color_write_mask)
      new_bb == [x |-> Min(bb.x, rp.bb.x), y |-> Min(bb.y, rp.bb.y), z |-> Max(bb.z, rp.bb.z), w |-> Max(bb.w, rp.bb.w)]
      Grow(t) == [t EXCEPT !.render_pass.z_sensitive = @ \/ is_z_sensitive,
                           !.render_pass.z_write = @ \/ z_write_first,
                           !.state_tracker.dirty_flags = IF z_write_first THEN @ \cup {"FEEDBACK"} ELSE @,
                           !.render_pass.color_write_mask = @ \cup write_mask,
                           !.render_pass.bb = new_bb]
      MarkColor(t) == mark_fb_write(t, [compute_fb_rect(t, t.render_pass.bb) EXCEPT !.write_mask = @ \cap t.render_pass.color_write_mask])
      MarkDepth(t) == IF ~t.render_pass.z_sensitive THEN t
                      ELSE IF t.render_pass.z_write THEN mark_fb_write(t, compute_z_rect(t, t.render_pass.bb))
                      ELSE mark_fb_read(t, compute_z_rect(t, t.render_pass.bb))
  IN IF z_first \/ z_write_first \/ mask_grows \/ new_bb # rp.bb THEN MarkDepth(MarkColor(Grow(s))) ELSE Grow(s)

AppendFeedback(t, quad, num_vertices, v) ==
  IF t.render_pass.is_color_feedback THEN deduce_color_feedback_mode(t, quad, num_vertices, v.pos, v.attr) ELSE "None"

AppendTransfer(t, prim) ==
  IF prim.TME # 0 /\ t.transfer_state.host_to_local_active /\ Len(t.transfer_state.host_to_local_payload) > t.transfer_state.last_flushed_qwords
  THEN flush_pending_transfer(t, TRUE) ELSE t

AppendRects(t, prim) == IF prim.TME # 0 /\ ~DirtyFlag(t, "TEX") THEN texture_page_rects_read(t) ELSE t

AppendAttr(t, bb, quad, num_vertices) ==
  [tex |-> t.state_tracker.prim_template.tex, tex2 |-> t.state_tracker.prim_template.tex2,
   state |-> [index |-> t.state_tracker.prim_template.state.index, bits |-> PrimitiveStateBits(t.state_tracker.prim_template.state.bits, quad, num_vertices)],
   fbmsk |-> Ctx(t).frame.FBMSK, alpha |-> Ctx(t).test.AREF, bb |-> bb]

AppendStore(t, prim, v, prim_attr, quad, feedback_mode) ==
  [t EXCEPT !.render_pass.prim = Append(@, prim_attr),
            !.render_pass.positions = Append(@, v.pos),
            !.render_pass.attributes = Append(@, v.attr),
            !.render_pass.primitive_count = @ + 1,
            !.state_tracker.dirty_flags = {},
            !.calls = Append(@, Call("append", [tex |-> prim_attr.tex, tme |-> prim.TME, feedback_mode |-> feedback_mode, pos |-> v.pos, attr |-> v.attr, quad |-> quad,
                                                 is_color_feedback |-> t.render_pass.is_color_feedback, has_color_feedback |-> t.render_pass.has_color_feedback,
                                                 feedback_psm |-> t.render_pass.feedback_psm, feedback_cpsm |-> t.render_pass.feedback_cpsm]))]

AppendExpand(t, prim, v, bb, quad, num_vertices, feedback_mode) ==
  AppendStore(ExpandRenderPass(t, bb), prim, v, AppendAttr(t, bb, quad, num_vertices), quad, feedback_mode)

AppendState(t, prim, v, bb, quad, num_vertices, feedback_mode) ==
  AppendExpand(drawing_kick_update_state(AppendRects(check_frame_buffer_state(AppendTransfer(t, prim)), prim), feedback_mode), prim, v, bb, quad, num_vertices, feedback_mode)

AppendDraw(t, prim, v, bb, quad, num_vertices) == AppendState(t, prim, v, bb, quad, num_vertices, AppendFeedback(t, quad, num_vertices, v))

drawing_kick_append(s, list_primitive, fan_primitive, quad, num_vertices) ==
  LET v == AppendVertices(s, num_vertices)
      bb == PrimitiveBB(s, quad, num_vertices, v.pos)
  IN IF bb.z < bb.x \/ bb.w < bb.y THEN s ELSE AppendDraw(update_color_feedback_state(s), s.registers.prim, v, bb, quad, num_vertices)

drawing_kick_maintain_queue(s, list_primitive, fan_primitive) ==
  IF fan_primitive THEN [s EXCEPT !.vertex_queue.pos[2] = s.vertex_queue.pos[3], !.vertex_queue.attr[2] = s.vertex_queue.attr[3], !.vertex_queue.count = 2]
  ELSE IF list_primitive THEN [s EXCEPT !.vertex_queue.count = 0]
  ELSE s

AppendUnlessDegenerate(d, list_primitive, fan_primitive, quad, num_vertices) ==
  IF ~d.r THEN drawing_kick_append(d.s, list_primitive, fan_primitive, quad, num_vertices) ELSE d.s

drawing_kick_primitive(s, adc, list_primitive, fan_primitive, quad, num_vertices) ==
  IF s.vertex_queue.count < num_vertices THEN s
  ELSE drawing_kick_maintain_queue(IF adc THEN s ELSE AppendUnlessDegenerate(draw_is_degenerate(s), list_primitive, fan_primitive, quad, num_vertices),
                                   list_primitive, fan_primitive)

drawing_kick_invalid(s, adc) == [s EXCEPT !.vertex_queue.count = 0]

post_draw_kick_handler_late(s) ==
  IF \/ s.render_pass.pending_palette_updates > CLUTInstances
     \/ s.render_pass.primitive_count > MaxPrimitivesPerFlush
     \/ Len(s.render_pass.tex_infos) > MaxTextures
     \/ Len(s.render_pass.state_vectors) > MaxStateVectors
  THEN tracker_flush_render_pass(flush_pending_transfer(s, TRUE), "Overflow")
  ELSE s

post_draw_kick_handler(s) ==
  IF \/ s.render_pass.pending_palette_updates >= CLUTInstances
     \/ s.render_pass.primitive_count >= MaxPrimitivesPerFlush
     \/ Len(s.render_pass.tex_infos) >= MaxTextures
     \/ Len(s.render_pass.state_vectors) >= MaxStateVectors
  THEN tracker_flush_render_pass(flush_pending_transfer(s, TRUE), "Overflow")
  ELSE s

reset_vertex_queue(s) == [s EXCEPT !.vertex_queue.count = 0]

(***************************************************************************)
(* Draw handler selection and the two drawing kicks: the generic one goes  *)
(* through the draw_handler pointer, the templated one through the switch  *)
(* on its PRIM template argument.                                          *)
(***************************************************************************)
PRIMInvalid == 7

PRIMTemplateArgs(PRIM) ==
  <<[list |-> TRUE, fan |-> FALSE, quad |-> TRUE, n |-> 1],
    [list |-> TRUE, fan |-> FALSE, quad |-> FALSE, n |-> 2],
    [list |-> FALSE, fan |-> FALSE, quad |-> FALSE, n |-> 2],
    [list |-> TRUE, fan |-> FALSE, quad |-> FALSE, n |-> 3],
    [list |-> FALSE, fan |-> FALSE, quad |-> FALSE, n |-> 3],
    [list |-> FALSE, fan |-> TRUE, quad |-> FALSE, n |-> 3],
    [list |-> TRUE, fan |-> FALSE, quad |-> TRUE, n |-> 2]>>[PRIM + 1]

HandlerNames == <<"Point", "LineList", "LineStrip", "TriangleList", "TriangleStrip", "TriangleFan", "Sprite", "drawing_kick_invalid">>

update_draw_handler(s) == [s EXCEPT !.draw_handler = HandlerNames[s.registers.prim.PRIM + 1]]

CallDrawHandler(s, adc) ==
  LET PRIM == CHOOSE p \in 0..PRIMInvalid : HandlerNames[p + 1] = s.draw_handler
      a == PRIMTemplateArgs(PRIM)
  IN IF s.draw_handler = "drawing_kick_invalid" THEN drawing_kick_invalid(s, adc) ELSE drawing_kick_primitive(s, adc, a.list, a.fan, a.quad, a.n)

drawing_kick(s, adc) == post_draw_kick_handler(CallDrawHandler(s, adc))

drawing_kick_PRIM(s, PRIM, adc) ==
  LET a == PRIMTemplateArgs(PRIM)
  IN post_draw_kick_handler(IF PRIM = PRIMInvalid THEN s ELSE drawing_kick_primitive(s, adc, a.list, a.fan, a.quad, a.n))

shift_vertex_queue_never(s) == s

shift_vertex_queue(s) ==
  IF s.vertex_queue.count = 3
  THEN [s EXCEPT !.vertex_queue.pos[1] = s.vertex_queue.pos[2], !.vertex_queue.attr[1] = s.vertex_queue.attr[2],
                 !.vertex_queue.pos[2] = s.vertex_queue.pos[3], !.vertex_queue.attr[2] = s.vertex_queue.attr[3],
                 !.vertex_queue.count = 2]
  ELSE s

vertex_kick_xyz(s, xyz) ==
  LET s1 == shift_vertex_queue(s)
      r == s1.registers
      i == s1.vertex_queue.count + 1
  IN [s1 EXCEPT !.vertex_queue.pos[i] = [x |-> xyz.X, y |-> xyz.Y, z |-> xyz.Z],
                !.vertex_queue.attr[i] = [st |-> r.st, q |-> r.rgbaq.Q, rgba |-> <<r.rgbaq.R, r.rgbaq.G, r.rgbaq.B, r.rgbaq.A>>, fog |-> r.fog, uv |-> r.uv],
                !.vertex_queue.count = i]

vertex_kick_xyzf(s, xyzf) ==
  LET s1 == shift_vertex_queue(s)
      r == s1.registers
      i == s1.vertex_queue.count + 1
  IN [s1 EXCEPT !.vertex_queue.pos[i] = [x |-> xyzf.X, y |-> xyzf.Y, z |-> xyzf.Z],
                !.vertex_queue.attr[i] = [st |-> r.st, q |-> r.rgbaq.Q, rgba |-> <<r.rgbaq.R, r.rgbaq.G, r.rgbaq.B, r.rgbaq.A>>, fog |-> xyzf.F, uv |-> r.uv],
                !.vertex_queue.count = i]

(***************************************************************************)
(* Register write handlers.  A payload is the decoded register record.     *)
(***************************************************************************)
MarkDirty(s, flags) == [s EXCEPT !.state_tracker.dirty_flags = @ \cup flags]

CTXTDirty == {"DEGENERATE", "PRIM_TEMPLATE", "TEX", "FB", "FEEDBACK"}

PRIMDirty == {"FEEDBACK", "PRIM_TEMPLATE", "TEX", "STATE"}

SetPrimAttributes_same_context(s, prim) ==
  LET s2 == IF s.registers.prim # prim THEN MarkDirty([s EXCEPT !.registers.prim = prim], PRIMDirty) ELSE s
  IN IF s2.registers.prim.TME = 0 THEN ClearDirtyFlag(s2, "TEX") ELSE s2

SetPrimAttributes(s, prim) ==
  LET s1 == IF s.registers.prim.CTXT # prim.CTXT THEN MarkDirty(s, CTXTDirty) ELSE s
      s2 == IF s1.registers.prim # prim THEN MarkDirty([s1 EXCEPT !.registers.prim = prim], PRIMDirty) ELSE s1
  IN IF s2.registers.prim.TME = 0 THEN ClearDirtyFlag(s2, "TEX") ELSE s2

a_d_PRIM_all_fields(s, payload) ==
  LET prim_delta == s.registers.prim.PRIM # payload.PRIM
      s1 == SetPrimAttributes(s, payload)
      s2 == IF prim_delta THEN update_draw_handler(s1) ELSE s1
  IN [reset_vertex_queue(s2) EXCEPT !.registers.internal_q = 1]

a_d_PRIM(s, payload) ==
  LET prim_delta == s.registers.prim.PRIM # payload.PRIM
      s1 == IF s.registers.prmodecont.AC # 0 THEN SetPrimAttributes(s, payload) ELSE [s EXCEPT !.registers.prim.PRIM = payload.PRIM]
      s2 == IF prim_delta THEN update_draw_handler(s1) ELSE s1
  IN [reset_vertex_queue(s2) EXCEPT !.registers.internal_q = 1]

a_d_PRMODE(s, payload) ==
  IF s.registers.prmodecont.AC = 0 THEN SetPrimAttributes(s, [payload EXCEPT !.PRIM = s.registers.prim.PRIM]) ELSE s

a_d_PRMODECONT(s, payload) == [s EXCEPT !.registers.prmodecont = payload]

a_d_RGBAQ(s, payload) == [s EXCEPT !.registers.rgbaq = payload]

a_d_ST(s, payload) == [s EXCEPT !.registers.st = payload]

a_d_UV(s, payload) == [s EXCEPT !.registers.uv = payload]

(***************************************************************************)
(* GSInterface::packed_XYZ<ADC>: the PACKED-mode vertex kick; the drawing  *)
(* kick runs with adc set when the register is XYZ3 or the ADC bit of the  *)
(* packed word is set.                                                     *)
(***************************************************************************)
packed_XYZ(s, ADC, xyz) == drawing_kick(vertex_kick_xyz(s, [X |-> xyz.X, Y |-> xyz.Y, Z |-> xyz.Z]), ADC \/ xyz.ADC # 0)

a_d_XYZ2(s, payload) == drawing_kick(vertex_kick_xyz(s, payload), FALSE)

a_d_XYZ3(s, payload) == vertex_kick_xyz(s, payload)

a_d_XYZF2(s, payload) == drawing_kick(vertex_kick_xyzf(s, payload), FALSE)

a_d_XYZF3(s, payload) == vertex_kick_xyzf(s, payload)

WriteTEX0(s, CTX, payload) ==
  IF s.registers.ctx[CTX].tex0 # payload THEN MarkDirty([s EXCEPT !.registers.ctx[CTX].tex0 = payload], {"FEEDBACK", "STATE", "PRIM_TEMPLATE", "TEX"}) ELSE s

a_d_TEX0(s, CTX, payload) == handle_tex0_write(WriteTEX0(s, CTX, payload), CTX)

a_d_TEX1(s, CTX, payload) ==
  IF s.registers.ctx[CTX].tex1 # payload THEN MarkDirty([s EXCEPT !.registers.ctx[CTX].tex1 = payload], {"FEEDBACK", "PRIM_TEMPLATE", "TEX"}) ELSE s

a_d_TEX2(s, CTX, payload) ==
  a_d_TEX0(s, CTX, [payload EXCEPT !.TBP0 = s.registers.ctx[CTX].tex0.TBP0, !.TBW = s.registers.ctx[CTX].tex0.TBW,
                                    !.TW = s.registers.ctx[CTX].tex0.TW, !.TH = s.registers.ctx[CTX].tex0.TH,
                                    !.TCC = s.registers.ctx[CTX].tex0.TCC, !.TFX = s.registers.ctx[CTX].tex0.TFX])

a_d_TEXCLUT(s, payload) == [s EXCEPT !.registers.texclut = payload]

a_d_TEXFLUSH(s, payload) == s

a_d_SCISSOR(s, CTX, payload) ==
  IF s.registers.ctx[CTX].scissor # payload THEN MarkDirty([s EXCEPT !.registers.ctx[CTX].scissor = payload], {"DEGENERATE"}) ELSE s

a_d_TEST(s, CTX, payload) ==
  IF s.registers.ctx[CTX].test # payload THEN MarkDirty([s EXCEPT !.registers.ctx[CTX].test = payload], {"DEGENERATE", "STATE", "PRIM_TEMPLATE"}) ELSE s

a_d_FRAME(s, CTX, payload) ==
  IF s.registers.ctx[CTX].frame # payload THEN MarkDirty([s EXCEPT !.registers.ctx[CTX].frame = payload], {"DEGENERATE", "FEEDBACK", "FB", "PRIM_TEMPLATE"}) ELSE s

a_d_ZBUF(s, CTX, payload) ==
  IF s.registers.ctx[CTX].zbuf # payload THEN MarkDirty([s EXCEPT !.registers.ctx[CTX].zbuf = payload], {"FEEDBACK", "DEGENERATE", "FB", "PRIM_TEMPLATE"}) ELSE s

a_d_BITBLTBUF(s, payload) == [s EXCEPT !.registers.bitbltbuf = payload]

a_d_TRXPOS(s, payload) == [s EXCEPT !.registers.trxpos = payload]

a_d_TRXREG(s, payload) == [s EXCEPT !.registers.trxreg = payload]

HOST_TO_LOCAL == 0

LOCAL_TO_HOST == 1

LOCAL_TO_LOCAL == 2

init_transfer(s) ==
  LET r == s.registers
      copy == [trxdir |-> r.trxdir, trxreg |-> r.trxreg, trxpos |-> r.trxpos, bitbltbuf |-> r.bitbltbuf]
      dst_rect == compute_page_rect(copy.bitbltbuf.DBP, copy.trxpos.DSAX, copy.trxpos.DSAY, copy.trxreg.RRW, copy.trxreg.RRH, copy.bitbltbuf.DBW, copy.bitbltbuf.DPSM)
      src_rect == compute_page_rect(copy.bitbltbuf.SBP, copy.trxpos.SSAX, copy.trxpos.SSAY, copy.trxreg.RRW, copy.trxreg.RRH, copy.bitbltbuf.SBW, copy.bitbltbuf.SPSM)
      required == (copy.trxreg.RRW * copy.trxreg.RRH * get_bits_per_pixel(copy.bitbltbuf.DPSM)) \div 64
      Start(t) == IF copy.trxdir.XDIR = LOCAL_TO_LOCAL
                  THEN Log(mark_transfer_copy(t, dst_rect, src_rect), "copy_vram", [copy |-> copy, host_data |-> <<>>, host_data_size_offset |-> 0, host_data_size_required |-> 0])
                  ELSE IF copy.trxdir.XDIR = HOST_TO_LOCAL
                  THEN [t EXCEPT !.transfer_state.required_qwords = required, !.transfer_state.host_to_local_active = required # 0]
                  ELSE t
  IN Start([flush_pending_transfer(s, FALSE) EXCEPT !.transfer_state.copy = copy])

a_d_TRXDIR(s, payload) == init_transfer([s EXCEPT !.registers.trxdir = payload])

a_d_HWREG(s, payload) ==
  IF s.transfer_state.host_to_local_active
  THEN check_pending_transfer([s EXCEPT !.transfer_state.host_to_local_payload = Append(@, payload)])
  ELSE s

a_d_HWREG_multi(s, payload) ==
  IF s.transfer_state.host_to_local_active
  THEN check_pending_transfer([s EXCEPT !.transfer_state.host_to_local_payload = @ \o payload])
  ELSE s

(***************************************************************************)
(* Observation of one step: `op` is the operation just performed with its  *)
(* input, gs.calls the calls it made, and `ghost` what the claims need to  *)
(* remember across steps.                                                  *)
(***************************************************************************)
Begin(s) == [s EXCEPT !.calls = <<>>]

IsFlush(call, phase) == call.c = "flush" /\ phase \in call.v.flags

HasFlush(s, phase, reason) == \E i \in DOMAIN s.calls : IsFlush(s.calls[i], phase) /\ s.calls[i].v.reason = reason

LastFlushIndex(s, phase) == IF \E i \in DOMAIN s.calls : IsFlush(s.calls[i], phase) THEN CHOOSE i \in DOMAIN s.calls : IsFlush(s.calls[i], phase) /\ \A j \in (i + 1)..Len(s.calls) : ~IsFlush(s.calls[j], phase) ELSE 0

CallArgsAfter(s, name, k) == {s.calls[i].v : i \in {j \in DOMAIN s.calls : j > k /\ s.calls[j].c = name}}

RectOverlap(a, b) == RectPages(a) \cap RectPages(b) # {} /\ a.block_mask \cap b.block_mask # {} /\ a.write_mask \cap b.write_mask # {}

RunLimit == 2 * (MaxPrimitivesPerFlush + 1)

RunInit == [k |-> 0, first |-> <<>>, same |-> TRUE, fresh |-> TRUE, n |-> 0, flushes |-> <<>>]

PaletteRunInit == [k |-> 0, tex0 |-> TEX0Zero, texclut |-> TEXCLUTZero, phase |-> "none", first_updates |-> 0, later_updates |-> 0,
                   after_first |-> [clut_instance |-> 0, ring |-> 0, pending |-> 0], stable |-> TRUE, flushed |-> FALSE, flushed_before_write |-> FALSE, emitted |-> FALSE, split |-> FALSE, hazard |-> FALSE]

GhostInit == [fb_rects |-> {}, prev_fb_rects |-> {}, palettes |-> {}, snap |-> {}, emitted |-> {}, run |-> RunInit, palette_run |-> PaletteRunInit, palette_uploads |-> 0, kicks |-> 0, prim_writes |-> 0]

GhostNext(g, s) ==
  LET k == LastFlushIndex(s, "FB")
  IN [g EXCEPT !.prev_fb_rects = g.fb_rects,
               !.fb_rects = (IF k = 0 THEN g.fb_rects ELSE {}) \cup CallArgsAfter(s, "mark_fb_write", k)]

Step(name, arg, s) == gs' = s /\ op' = Call(name, arg) /\ ghost' = GhostNext(ghost, s) /\ UNCHANGED <<probe, feed>>

RECURSIVE PaletteFold(_, _, _)
PaletteFold(calls, i, acc) ==
  IF i > Len(calls) THEN acc
  ELSE PaletteFold(calls, i + 1,
         IF calls[i].c = "update_palette_cache" THEN [acc EXCEPT !.palettes = @ \cup {calls[i].v.desc}]
         ELSE IF IsFlush(calls[i], "FB") THEN [acc EXCEPT !.snap = acc.palettes, !.palettes = {}]
         ELSE IF calls[i].c = "flush_rendering" THEN [acc EXCEPT !.emitted = @ \cup {[pending |-> calls[i].v.pending_palette_updates, distinct |-> Cardinality(acc.snap)]}]
         ELSE acc)

RECURSIVE RunFlushes(_, _, _)
RunFlushes(calls, i, n) ==
  IF i > Len(calls) THEN <<>>
  ELSE (IF calls[i].c = "flush_rendering" THEN <<[reason |-> calls[i].v.flush_reason, at |-> n]>> ELSE <<>>)
       \o RunFlushes(calls, i + 1, IF calls[i].c = "append" THEN n + 1 ELSE n)

RunNext(run, s, name, arg) ==
  IF name # "XYZ2" THEN [RunInit EXCEPT !.fresh = s.render_pass.primitive_count = 0 /\ s.vertex_queue.count = 0]
  ELSE IF ~run.fresh \/ ~run.same \/ run.k >= RunLimit THEN [RunInit EXCEPT !.fresh = FALSE]
  ELSE [run EXCEPT !.k = @ + 1,
                   !.first = IF run.k < 2 THEN Append(@, arg) ELSE @,
                   !.same = @ /\ (run.k < 2 \/ arg = run.first[(run.k % 2) + 1]),
                   !.n = @ + (IF "append" \in CallNames(s) THEN 1 ELSE 0),
                   !.flushes = @ \o RunFlushes(s.calls, 1, run.n)]

CountCalls(s, name) == Cardinality({i \in DOMAIN s.calls : s.calls[i].c = name})

PaletteSnapshot(s) == [clut_instance |-> s.render_pass.clut_instance, ring |-> Len(s.render_pass.memoized_palettes), pending |-> s.render_pass.pending_palette_updates]

FlushedIn(s) == "flush_rendering" \in CallNames(s) \/ "flush_cache_upload" \in CallNames(s)

HazardIn(s) == \E i \in DOMAIN s.calls : s.calls[i].c = "flush" /\ s.calls[i].v.reason \in {"TextureHazard", "CopyHazard"}

PaletteRunNext(run, s, name, arg) ==
  IF name = "TEX0_1"
  THEN IF run.k > 0 /\ run.phase = "drawn" /\ arg = run.tex0 /\ s.registers.texclut = run.texclut
       THEN [run EXCEPT !.k = @ + 1, !.phase = "written",
                        !.later_updates = @ + CountCalls(s, "update_palette_cache"),
                        !.stable = @ /\ PaletteSnapshot(s) = run.after_first,
                        !.flushed_before_write = run.flushed,
                        !.flushed = @ \/ FlushedIn(s),
                        !.emitted = @ \/ "flush_rendering" \in CallNames(s)]
       ELSE [PaletteRunInit EXCEPT !.k = 1, !.tex0 = arg, !.texclut = s.registers.texclut, !.phase = "written",
                                   !.first_updates = CountCalls(s, "update_palette_cache"),
                                   !.after_first = PaletteSnapshot(s),
                                   !.flushed = FlushedIn(s)]
  ELSE IF name = "TEXCLUT" /\ run.k > 0 /\ arg = run.texclut THEN run
  ELSE IF name = "XYZ2" /\ run.k > 0 /\ "append" \in CallNames(s) /\ run.phase \in {"written", "vertex"}
  THEN [run EXCEPT !.phase = "drawn",
                   !.split = @ \/ (run.k > 1 /\ (run.emitted \/ (IndexOf(s, "flush_rendering") # 0 /\ IndexOf(s, "flush_rendering") < IndexOf(s, "append")))),
                   !.emitted = @ \/ (run.k > 1 /\ "flush_rendering" \in CallNames(s)) \/ LastIndexOf(s, "flush_rendering") > IndexOf(s, "append"),
                   !.flushed = @ \/ FlushedIn(s),
                   !.hazard = @ \/ HazardIn(s)]
  ELSE IF name = "XYZ2" /\ run.k > 0 /\ "append" \notin CallNames(s) /\ run.phase = "written" /\ ~FlushedIn(s)
  THEN [run EXCEPT !.phase = "vertex"]
  ELSE PaletteRunInit

PaletteStep(name, arg, s) == gs' = s /\ op' = Call(name, arg) /\ ghost' = [ghost EXCEPT !.palette_run = PaletteRunNext(ghost.palette_run, s, name, arg), !.palette_uploads = @ + CountCalls(s, "update_palette_cache")] /\ UNCHANGED <<probe, feed>>

DrawGhost(g, s, name, arg) == [PaletteFold(s.calls, 1, [g EXCEPT !.emitted = {}]) EXCEPT !.run = RunNext(g.run, s, name, arg)]

DrawStep(name, arg, s) == gs' = s /\ op' = Call(name, arg) /\ ghost' = DrawGhost(ghost, s, name, arg) /\ UNCHANGED <<probe, feed>>

Do(name, arg, s) == gs' = s /\ op' = Call(name, arg) /\ UNCHANGED <<probe, feed, ghost>>

Init == gs = GSInit /\ op = Call("init", <<>>) /\ probe = <<>> /\ feed = <<>> /\ ghost = GhostInit

(***************************************************************************)
(* The page tracker driven directly through its interface.                 *)
(***************************************************************************)
PageRectOf(p, w, b, m) == [base_page |-> p, page_width |-> w, page_height |-> 1, page_stride |-> 0, block_mask |-> b, write_mask |-> m]

FBRectInputs == {PageRectOf(0, 1, AllBits, Low24), PageRectOf(0, 1, AllBits, High8), PageRectOf(1, 1, AllBits, Low24)}

TexRectInputs == {PageRectOf(0, 1, {0}, Low24), PageRectOf(0, 1, {0}, High8), PageRectOf(1, 1, {1}, Low24), PageRectOf(0, 2, {0}, AllBits)}

CopyRectInputs == {PageRectOf(0, 1, {0}, AllBits), PageRectOf(1, 1, {1}, AllBits)}

TrMarkFBWrite == \E r \in FBRectInputs : Step("mark_fb_write", r, mark_fb_write(Begin(gs), r))

TrMarkFBRead == \E r \in {PageRectOf(1, 1, AllBits, AllBits)} : Step("mark_fb_read", r, mark_fb_read(Begin(gs), r))

TrMarkTextureRead == \E r \in TexRectInputs : Step("mark_texture_read", r, mark_texture_read(Begin(gs), r))

TrMarkTransferWrite == \E r \in CopyRectInputs : Step("mark_transfer_write", r, mark_transfer_write(Begin(gs), r))

TrFlushRenderPass == \E reason \in {"FBPointer", "Overflow"} : Step("flush_render_pass", reason, tracker_flush_render_pass(Begin(gs), reason))

TrInvalidateTextureCache == Step("invalidate_texture_cache", NoIndex, invalidate_texture_cache(Begin(gs), NoIndex))

NextTracker == TrMarkFBWrite \/ TrMarkFBRead \/ TrMarkTextureRead \/ TrMarkTransferWrite \/ TrFlushRenderPass \/ TrInvalidateTextureCache

SpecTracker == Init /\ [][NextTracker]_vars

(***************************************************************************)
(* C3: a mark_texture_read whose rect overlaps, on a page, a block and a   *)
(* write-mask bit, a rect recorded by mark_fb_write and not yet flushed    *)
(* makes the tracker call the callback's flush with the render-pass phase  *)
(* and reason TextureHazard before it returns.                             *)
(***************************************************************************)
C3_Hazard == op.c = "mark_texture_read" /\ \E r \in ghost.prev_fb_rects : RectOverlap(r, op.v)

C3_TextureReadFlushes == C3_Hazard => HasFlush(gs, "FB", "TextureHazard")

C3_Witness == C3_Hazard /\ HasFlush(gs, "FB", "TextureHazard") /\ ghost.fb_rects = {}

(***************************************************************************)
(* Frame-buffer pointer changes between draws: FRAME, ZBUF and TEST of     *)
(* context 0 are rewritten between the vertex kicks of untextured sprites. *)
(***************************************************************************)
Live == gs.render_pass.label_key < MaxLabelKey

FrameOf(fbp, fbmsk) == [FBP |-> fbp, FBW |-> 1, PSM |-> "PSMCT32", FBMSK |-> fbmsk]

ZbufOf(zbp, zmsk) == [ZBP |-> zbp, PSM |-> "PSMZ32", ZMSK |-> zmsk]

ZTestOn == [TESTZero EXCEPT !.ZTE = ZTE_ENABLED, !.ZTST = 2]

PointPrim == [PRIMZero EXCEPT !.FST = 1]

SpritePrim == [PRIMZero EXCEPT !.PRIM = 6, !.FST = 1]

XYZOf(x, y) == [X |-> x, Y |-> y, Z |-> 0]

VertexInputs == {XYZOf(0, 0), XYZOf(16, 16)}

FbWriteFRAME == \E v \in {FrameOf(1, {}), FrameOf(2, {})} : Do("FRAME_1", v, a_d_FRAME(Begin(gs), 0, v))

FbWriteZBUF == \E v \in {ZbufOf(0, 0), ZbufOf(3, 0)} : Do("ZBUF_1", v, a_d_ZBUF(Begin(gs), 0, v))

FbWriteTEST == \E v \in {TESTZero, ZTestOn} : Do("TEST_1", v, a_d_TEST(Begin(gs), 0, v))

FbWritePRIM == \E v \in {PointPrim, SpritePrim} : Do("PRIM", v, a_d_PRIM(Begin(gs), v))

FbWriteXYZ2 == \E v \in {XYZOf(8, 8)} : Live /\ Do("XYZ2", v, a_d_XYZ2(Begin(gs), v))

NextFB == FbWriteFRAME \/ FbWriteZBUF \/ FbWriteTEST \/ FbWritePRIM \/ FbWriteXYZ2

SpecFB == Init /\ [][NextFB]_vars

Appended(s) == "append" \in CallNames(s)

FlushBeforeAppend(s, reason) == \E i \in DOMAIN s.calls : IsFlush(s.calls[i], "FB") /\ s.calls[i].v.reason = reason /\ i < IndexOf(s, "append")

RenderingBeforeAppend(s) == IndexOf(s, "flush_rendering") # 0 /\ IndexOf(s, "flush_rendering") < IndexOf(s, "append")

KickAppends == op'.c = "XYZ2" /\ Appended(gs') /\ gs.render_pass.primitive_count > 0

(***************************************************************************)
(* C10: at a draw kick that appends a primitive to a pass already holding  *)
(* one, the pass is flushed with reason FBPointer before the append when   *)
(* the context's FRAME pointer, width or format differs from the pass's,   *)
(* or when the pass is depth-sensitive and the context's ZBUF pointer or   *)
(* format differs from the pass's.                                         *)
(***************************************************************************)
C10_FBPointerFlush == [][(KickAppends /\ (fb_delta_of(gs) \/ (gs.render_pass.z_sensitive /\ z_delta_of(gs)))) => (FlushBeforeAppend(gs', "FBPointer") /\ RenderingBeforeAppend(gs'))]_vars

C10_Witness == op.c = "XYZ2" /\ FlushBeforeAppend(gs, "FBPointer") /\ RenderingBeforeAppend(gs) /\ gs.calls[IndexOf(gs, "flush_rendering")].v.z.ZBP # gs.render_pass.zbuf.ZBP /\ gs.calls[IndexOf(gs, "flush_rendering")].v.frame = gs.render_pass.frame

(* C10 as stated: any FRAME or ZBUF pointer difference flushes the pass.   *)
C10_AnyChangeFlushes == [][(KickAppends /\ (fb_delta_of(gs) \/ z_delta_of(gs))) => FlushBeforeAppend(gs', "FBPointer")]_vars

(***************************************************************************)
(* Drawing through the register interface: sprites, textured or not, with  *)
(* varying blend state, so that every capacity of the accumulator is       *)
(* reached.  The frame buffer is page 1; textures live on pages 1 and 2    *)
(* and the palette on page 3.                                              *)
(***************************************************************************)
LiveDraw == gs.render_pass.label_key <= MaxLabelKey

Tex0Of(tbp0, psm, csa) == [TEX0Zero EXCEPT !.TBP0 = tbp0, !.TBW = 1, !.PSM = psm, !.CBP = 3 * BLOCKS_PER_PAGE, !.CSA = csa, !.CLD = 1]

SpriteTex == [SpritePrim EXCEPT !.TME = 1]

DrawFRAME == \E v \in {FrameOf(1, {})} : DrawStep("FRAME_1", v, a_d_FRAME(Begin(gs), 0, v))

DrawPRIM == \E v \in {SpriteTex} : DrawStep("PRIM", v, a_d_PRIM(Begin(gs), v))

DrawTEX0 == \E v \in {Tex0Of(BLOCKS_PER_PAGE, "PSMT4", 0), [Tex0Of(2 * BLOCKS_PER_PAGE, "PSMT4", 1) EXCEPT !.TFX = 1]} : DrawStep("TEX0_1", v, a_d_TEX0(Begin(gs), 0, v))

DrawXYZ2 == \E v \in VertexInputs : LiveDraw /\ DrawStep("XYZ2", v, a_d_XYZ2(Begin(gs), v))

NextDraw == DrawFRAME \/ DrawPRIM \/ DrawTEX0 \/ DrawXYZ2

SpecDraw == Init /\ [][NextDraw]_vars

EmittedPasses == {gs.calls[i].v : i \in {j \in DOMAIN gs.calls : gs.calls[j].c = "flush_rendering"}}

ReachedLimit(p) == p.num_primitives >= MaxPrimitivesPerFlush \/ Len(p.textures) >= MaxTextures \/ Len(p.states) >= MaxStateVectors \/ p.pending_palette_updates >= CLUTInstances

SpriteRun == op.c = "XYZ2" /\ gs.registers.prim.PRIM = 6 /\ ghost.run.fresh /\ ghost.run.same

RunFlushesAre(reasons) == \A i \in DOMAIN ghost.run.flushes : ghost.run.flushes[i].reason \in reasons

OneOverflowFlush == /\ \A i \in DOMAIN ghost.run.flushes : ghost.run.flushes[i] = [reason |-> "Overflow", at |-> MaxPrimitivesPerFlush]
                    /\ ghost.run.n = MaxPrimitivesPerFlush + 1 => Len(ghost.run.flushes) = 1

C9_TablesWithinPrimitives ==
  /\ \A p \in EmittedPasses : /\ Len(p.states) <= p.num_primitives
                              /\ \A i, j \in DOMAIN p.states : p.states[i] = p.states[j] => i = j
                              /\ Len(p.textures) <= p.num_primitives
  /\ \A e \in ghost.emitted : e.pending >= e.distinct

C9_Witness == \E p \in EmittedPasses : Len(p.states) = 2 /\ Len(p.textures) = 2 /\ p.num_primitives = 2 /\ [pending |-> 2, distinct |-> 2] \in ghost.emitted

(***************************************************************************)
(* C9 as stated: pending_palette_updates equals the number of distinct     *)
(* palette upload descriptors of the pass.                                 *)
(***************************************************************************)
C9_PaletteCountExact == \A e \in ghost.emitted : e.pending = e.distinct

(***************************************************************************)
(* Palette uploads through TEX0 and TEXCLUT, interleaved with textured     *)
(* points.  The textures are 4-bit indexed on page 2, the palettes on     *)
(* page 3, the frame buffer on page 1.                                     *)
(***************************************************************************)
PointTex == [PointPrim EXCEPT !.TME = 1]

PaletteFRAME == \E v \in {FrameOf(1, {})} : PaletteStep("FRAME_1", v, a_d_FRAME(Begin(gs), 0, v))

PalettePRIM == \E v \in {SpriteTex, PointTex} : PaletteStep("PRIM", v, a_d_PRIM(Begin(gs), v))

PaletteTEX0 == \E v \in {Tex0Of(2 * BLOCKS_PER_PAGE, "PSMT4", 0), Tex0Of(2 * BLOCKS_PER_PAGE, "PSMT4", 1)} : ghost.palette_uploads < MaxPaletteUploads /\ PaletteStep("TEX0_1", v, a_d_TEX0(Begin(gs), 0, v))

PaletteTEXCLUT == \E v \in {TEXCLUTZero, [TEXCLUTZero EXCEPT !.CBW = 1]} : PaletteStep("TEXCLUT", v, a_d_TEXCLUT(Begin(gs), v))

PaletteXYZ2 == \E v \in {XYZOf(8, 8)} : LiveDraw /\ PaletteStep("XYZ2", v, a_d_XYZ2(Begin(gs), v))

NextPalette == PaletteFRAME \/ PalettePRIM \/ PaletteTEX0 \/ PaletteTEXCLUT \/ PaletteXYZ2

SpecPalette == Init /\ [][NextPalette]_vars

MemoizedMatching(s, t) == {i \in DOMAIN s.render_pass.memoized_palettes : MemoMatches(s.render_pass.memoized_palettes[i], ClutPage(t, 0), PaletteDesc(t, 0))}

LatestMatching(s, t) == CHOOSE i \in MemoizedMatching(s, t) : \A j \in MemoizedMatching(s, t) : j <= i

NoDivergingAfter(s, t, i) == \A j \in (i + 1)..Len(s.render_pass.memoized_palettes) : s.render_pass.memoized_palettes[j].csa_mask \subseteq ClutPage(t, 0).csa_mask

ClutLoadWrite == op'.c = "TEX0_1" /\ "register_cached_clut_clobber" \in CallNames(gs')

(***************************************************************************)
(* C6.  A TEX0 write that loads the CLUT with the normalized TEX0 bits,    *)
(* TEXCLUT bits and CSA mask of an upload memoized in the ring makes no    *)
(* update_palette_cache call and reuses the instance of the most recent    *)
(* such upload, provided no more recent ring entry has CSA bits outside    *)
(* the new upload's CSA mask and the handler did not reset the ring by a   *)
(* flush before looking it up.                                             *)
(***************************************************************************)
C6_MemoizedUploadReused ==
  [][(/\ ClutLoadWrite
      /\ MemoizedMatching(gs, gs') # {}
      /\ NoDivergingAfter(gs, gs', LatestMatching(gs, gs'))
      /\ "flush_cache_upload" \notin CallNames(gs'))
     => (/\ "update_palette_cache" \notin CallNames(gs')
         /\ gs'.render_pass.clut_instance = gs.render_pass.memoized_palettes[LatestMatching(gs, gs')].clut_instance
         /\ gs'.render_pass.pending_palette_updates = gs.render_pass.pending_palette_updates)]_vars

C6_Witness == /\ op.c = "TEX0_1"
              /\ "register_cached_clut_clobber" \in CallNames(gs)
              /\ "update_palette_cache" \notin CallNames(gs)
              /\ Len(gs.render_pass.memoized_palettes) = 2
              /\ gs.render_pass.clut_instance # gs.render_pass.latest_clut_instance

(***************************************************************************)
(* C6 as stated: whatever was uploaded in between, a load that matches a   *)
(* memoized upload makes no update_palette_cache call and reuses a         *)
(* matching upload's instance.                                             *)
(***************************************************************************)
C6_ExactCache ==
  [][(ClutLoadWrite /\ MemoizedMatching(gs, gs') # {})
     => (/\ "update_palette_cache" \notin CallNames(gs')
         /\ \E i \in MemoizedMatching(gs, gs') : gs'.render_pass.clut_instance = gs.render_pass.memoized_palettes[i].clut_instance)]_vars

RepeatedUpload == ghost.palette_run.k >= 1 /\ ghost.palette_run.phase = "drawn" /\ ~ghost.palette_run.hazard

UploadedOnce == ghost.palette_run.later_updates = 0 /\ ghost.palette_run.first_updates <= 1 /\ ghost.palette_run.stable /\ ~ghost.palette_run.split

BitbltOf(dbp) == [BITBLTBUFZero EXCEPT !.DBP = dbp, !.DBW = 1]

TrxregOf(w, h) == [RRW |-> w, RRH |-> h]

TransferFRAME == \E v \in {FrameOf(1, {})} : Do("FRAME_1", v, a_d_FRAME(Begin(gs), 0, v))

TransferPRIM == \E v \in {SpritePrim, PointTex} : Do("PRIM", v, a_d_PRIM(Begin(gs), v))

TransferTEX0 == \E v \in {[TEX0Zero EXCEPT !.TBP0 = 2 * BLOCKS_PER_PAGE, !.TBW = 1]} : Do("TEX0_1", v, a_d_TEX0(Begin(gs), 0, v))

TransferBITBLTBUF == \E v \in {BitbltOf(2 * BLOCKS_PER_PAGE)} : Do("BITBLTBUF", v, a_d_BITBLTBUF(Begin(gs), v))

TransferTRXREG == \E v \in {TrxregOf(6, 1)} : Do("TRXREG", v, a_d_TRXREG(Begin(gs), v))

TransferTRXDIR == \E v \in {[XDIR |-> HOST_TO_LOCAL]} : Do("TRXDIR", v, a_d_TRXDIR(Begin(gs), v))

TransferHWREG == \E v \in {1, 2} : Do("HWREG", v, a_d_HWREG(Begin(gs), v))

TransferXYZ2 == \E v \in {XYZOf(8, 8)} : Live /\ Do("XYZ2", v, a_d_XYZ2(Begin(gs), v))

NextTransfer == TransferFRAME \/ TransferPRIM \/ TransferTEX0 \/ TransferBITBLTBUF \/ TransferTRXREG \/ TransferTRXDIR \/ TransferHWREG \/ TransferXYZ2

SpecTransfer == Init /\ [][NextTransfer]_vars

Unsubmitted(s) == s.transfer_state.host_to_local_active /\ Len(s.transfer_state.host_to_local_payload) > s.transfer_state.last_flushed_qwords

TexturedAppend(s) == \E i \in DOMAIN s.calls : s.calls[i].c = "append" /\ s.calls[i].v.tme = 1

TextureWork(s) == {i \in DOMAIN s.calls : s.calls[i].c \in {"mark_texture_read", "create_cached_texture", "append"}}

SubmittedBeforeTextureWork(s, t) ==
  \E i, j \in DOMAIN t.calls :
     /\ i < j
     /\ t.calls[i].c = "mark_transfer_write"
     /\ t.calls[j].c = "copy_vram"
     /\ t.calls[j].v.host_data = s.transfer_state.host_to_local_payload
     /\ t.calls[j].v.host_data_size_offset = s.transfer_state.last_flushed_qwords
     /\ \A k \in TextureWork(t) : j < k

(***************************************************************************)
(* C5: whenever a vertex kick appends a textured primitive, the payload    *)
(* that was received and not yet submitted before the kick has been given  *)
(* to mark_transfer_write and copy_vram ahead of the kick's texture reads, *)
(* texture creation and append, and afterwards either no transfer is       *)
(* active or last_flushed_qwords equals the payload size.  A transfer that *)
(* is active stops being active only in a TRXDIR write or in the HWREG     *)
(* write that completes the required size.                                 *)
(***************************************************************************)
C5_TransferSubmittedBeforeTexture ==
  [][/\ (op'.c = "XYZ2" /\ TexturedAppend(gs')) =>
          /\ ~Unsubmitted(gs')
          /\ Unsubmitted(gs) => SubmittedBeforeTextureWork(gs, gs')
     /\ (gs.transfer_state.host_to_local_active /\ ~gs'.transfer_state.host_to_local_active) =>
          \/ op'.c = "TRXDIR"
          \/ op'.c = "HWREG" /\ Len(gs.transfer_state.host_to_local_payload) + 1 >= gs.transfer_state.required_qwords
     /\ (gs.transfer_state.host_to_local_active /\ gs'.transfer_state.host_to_local_active /\ op'.c # "TRXDIR") =>
          /\ gs'.transfer_state.required_qwords = gs.transfer_state.required_qwords
          /\ Len(gs'.transfer_state.host_to_local_payload) >= Len(gs.transfer_state.host_to_local_payload)
          /\ SubSeq(gs'.transfer_state.host_to_local_payload, 1, Len(gs.transfer_state.host_to_local_payload)) = gs.transfer_state.host_to_local_payload]_vars

(* A textured point was appended while a transfer of three words had       *)
(* received two: the kick submitted the two words and kept the transfer    *)
(* active.                                                                 *)
C5_Witness ==
  /\ op.c = "XYZ2"
  /\ TexturedAppend(gs)
  /\ gs.transfer_state.host_to_local_active
  /\ gs.transfer_state.required_qwords = 3
  /\ Len(gs.transfer_state.host_to_local_payload) = 2
  /\ gs.transfer_state.last_flushed_qwords = 2
  /\ \E j \in DOMAIN gs.calls : gs.calls[j].c = "copy_vram" /\ gs.calls[j].v.host_data_size_offset = 1 /\ Len(gs.calls[j].v.host_data) = 2

(***************************************************************************)
(* GSInterface::map_vram_read over the pages begin_page..end_page.  The    *)
(* tracker's get_host_read_timeline answers UINT64_MAX while work on the   *)
(* pages is pending.                                                       *)
(***************************************************************************)
get_host_read_timeline(s, rect) == IF HostAccessPending(s, rect) THEN "UINT64_MAX" ELSE "reached"

map_vram_read(s, begin_page, end_page) ==
  LET page_rect == [PageRectZero EXCEPT !.base_page = begin_page, !.page_width = end_page - begin_page + 1, !.page_height = 1]
      Submit(t) == IF get_host_read_timeline(t, page_rect) = "UINT64_MAX" THEN Log(mark_submission_timeline(t), "flush_submit", <<>>) ELSE t
  IN Log(Log(Submit(s), "wait_timeline", <<>>), "begin_host_vram_access", <<>>)

(***************************************************************************)
(* Commands that read what the render pass writes.  The frame buffer is    *)
(* page 1 and one page wide; textures and the palette are on page 1 too,   *)
(* and the host maps page 1 for reading.                                   *)
(***************************************************************************)
TriangleTex == [PRIMZero EXCEPT !.PRIM = 3, !.TME = 1, !.FST = 1]

FeedbackTex0 == [TEX0Zero EXCEPT !.TBP0 = BLOCKS_PER_PAGE, !.TBW = 1, !.TW = 6]

PaletteOnFrameTex0 == [Tex0Of(2 * BLOCKS_PER_PAGE, "PSMT4", 0) EXCEPT !.CBP = BLOCKS_PER_PAGE]

FeedbackFRAME == \E v \in {FrameOf(1, {})} : Do("FRAME_1", v, a_d_FRAME(Begin(gs), 0, v))

FeedbackPRIM == \E v \in {TriangleTex, SpriteTex} : Do("PRIM", v, a_d_PRIM(Begin(gs), v))

FeedbackTEX0 == \E v \in {FeedbackTex0, PaletteOnFrameTex0} : Do("TEX0_1", v, a_d_TEX0(Begin(gs), 0, v))

FeedbackXYZ2 == \E v \in VertexInputs : Live /\ Do("XYZ2", v, a_d_XYZ2(Begin(gs), v))

FeedbackMapRead == \E p \in {1} : Do("map_vram_read", p, map_vram_read(Begin(gs), p, p))

NextFeedback == FeedbackFRAME \/ FeedbackPRIM \/ FeedbackTEX0 \/ FeedbackXYZ2 \/ FeedbackMapRead

SpecFeedback == Init /\ [][NextFeedback]_vars

PassWrites(s) == IF s.render_pass.primitive_count = 0 THEN {} ELSE {p \in Pages : "FB_WRITE" \in s.tracker.page_state[p].flags}

TexturePages(s) ==
  LET tex0 == Ctx(s).tex0
  IN RectPages(compute_page_rect(tex0.TBP0, 0, 0, Pow2(tex0.TW), Pow2(tex0.TH), tex0.TBW, tex0.PSM))

FlushedBefore(s, names) == \E i \in DOMAIN s.calls : s.calls[i].c = "flush_rendering" /\ \A k \in DOMAIN s.calls : s.calls[k].c \in names => i < k

ObservingDraw == op'.c = "XYZ2" /\ TexturedAppend(gs') /\ TexturePages(gs) \cap PassWrites(gs) # {}

ObservingUpload == op'.c = "TEX0_1" /\ CountCalls(gs', "update_palette_cache") > 0 /\ RectPages(ClutPage(gs', 0)) \cap PassWrites(gs) # {}

ObservingMap == op'.c = "map_vram_read" /\ op'.v \in PassWrites(gs)

(***************************************************************************)
(* C4: whenever a textured draw whose texture pages overlap pages the      *)
(* unflushed render pass writes is appended, or a CLUT upload reads such   *)
(* pages, or the host maps such pages for reading, flush_rendering for     *)
(* that pass is called before the command's create_cached_texture,         *)
(* update_palette_cache or wait_timeline and before the append.            *)
(***************************************************************************)
C4_FlushBeforeObserver ==
  [][/\ ObservingDraw => FlushedBefore(gs', {"create_cached_texture", "append"})
     /\ ObservingUpload => FlushedBefore(gs', {"update_palette_cache"})
     /\ ObservingMap => FlushedBefore(gs', {"wait_timeline"})]_vars

(***************************************************************************)
(* PRIM, PRMODE and PRMODECONT writes between draws of points.  Context 0  *)
(* has a frame buffer on page 1; context 1 keeps the zero FRAME.           *)
(***************************************************************************)
ModeInputs == {[PRIMZero EXCEPT !.PRIM = p, !.TME = t, !.CTXT = c, !.FST = 1] : p \in {0, 6}, t \in {0, 1}, c \in {0, 1}}

ModePRMODECONT == \E v \in {[AC |-> 0], [AC |-> 1]} : Do("PRMODECONT", v, a_d_PRMODECONT(Begin(gs), v))

ModePRIM == \E v \in ModeInputs : Do("PRIM", v, a_d_PRIM(Begin(gs), v))

ModePRMODE == \E v \in ModeInputs : Do("PRMODE", v, a_d_PRMODE(Begin(gs), v))

ModeFRAME == \E v \in {FrameOf(1, {})} : Do("FRAME_1", v, a_d_FRAME(Begin(gs), 0, v))

ModeXYZ2 == \E v \in {XYZOf(8, 8)} : Live /\ Do("XYZ2", v, a_d_XYZ2(Begin(gs), v))

NextMode == ModePRMODECONT \/ ModePRIM \/ ModePRMODE \/ ModeFRAME \/ ModeXYZ2

SpecMode == Init /\ [][NextMode]_vars

DirtyFlags(s) == s.state_tracker.dirty_flags

(***************************************************************************)
(* C11: with AC = 0 a PRIM write changes only the PRIM type field of the   *)
(* mode register and no dirty flag, and a PRMODE write replaces every mode *)
(* bit except the PRIM type; with AC = 1 a PRIM write replaces all fields  *)
(* and a PRMODE write changes no register and no dirty flag.               *)
(***************************************************************************)
C11_ModeSource ==
  [][/\ (op'.c = "PRIM" /\ gs.registers.prmodecont.AC = 0) =>
          /\ gs'.registers = [gs.registers EXCEPT !.prim.PRIM = op'.v.PRIM, !.internal_q = 1]
          /\ DirtyFlags(gs') = DirtyFlags(gs)
     /\ (op'.c = "PRMODE" /\ gs.registers.prmodecont.AC = 0) =>
          gs'.registers.prim = [op'.v EXCEPT !.PRIM = gs.registers.prim.PRIM]
     /\ (op'.c = "PRIM" /\ gs.registers.prmodecont.AC = 1) =>
          gs'.registers.prim = op'.v
     /\ (op'.c = "PRMODE" /\ gs.registers.prmodecont.AC = 1) =>
          /\ gs'.registers = gs.registers
          /\ DirtyFlags(gs') = DirtyFlags(gs)]_vars

(* A PRIM write with AC = 0 named the other context and texturing; the     *)
(* register kept its CTXT and TME and the flags left by the last draw.     *)
C11_Witness ==
  /\ op.c = "PRIM"
  /\ gs.registers.prmodecont.AC = 0
  /\ op.v.CTXT # gs.registers.prim.CTXT
  /\ op.v.TME # gs.registers.prim.TME
  /\ op.v.PRIM = gs.registers.prim.PRIM
  /\ DirtyFlags(gs) = {}
  /\ gs.render_pass.primitive_count > 0

ContextSwitch == ((op'.c = "PRIM" /\ gs.registers.prmodecont.AC = 1) \/ (op'.c = "PRMODE" /\ gs.registers.prmodecont.AC = 0)) /\ op'.v.CTXT # gs.registers.prim.CTXT

(***************************************************************************)
(* C12 as stated: every register write that changes the active context     *)
(* index returns with the DEGENERATE, PRIM_TEMPLATE, TEX, FB and FEEDBACK  *)
(* dirty bits all set, whatever the TME bit of the written value is.       *)
(***************************************************************************)
C12_ContextSwitchSetsTex == [][ContextSwitch => {"DEGENERATE", "PRIM_TEMPLATE", "TEX", "FB", "FEEDBACK"} \subseteq DirtyFlags(gs')]_vars

(***************************************************************************)
(* C12: every register write that changes the active context index returns *)
(* with the DEGENERATE, PRIM_TEMPLATE, FB and FEEDBACK dirty bits set, and  *)
(* with the TEX dirty bit set exactly when the written value has TME set.   *)
(***************************************************************************)
C12_ContextSwitchDirty ==
  [][ContextSwitch =>
       /\ {"DEGENERATE", "PRIM_TEMPLATE", "FB", "FEEDBACK"} \subseteq DirtyFlags(gs')
       /\ ("TEX" \in DirtyFlags(gs')) <=> (op'.v.TME = 1)]_vars

(* After a draw had cleared every flag, a write switched to context 1 with *)
(* texturing off: four of the five bits are set and TEX is clear.          *)
C12_Witness ==
  /\ op.c \in {"PRIM", "PRMODE"}
  /\ gs.registers.prim = op.v
  /\ op.v.CTXT = 1
  /\ op.v.TME = 0
  /\ gs.render_pass.primitive_count > 0
  /\ DirtyFlags(gs) = {"DEGENERATE", "PRIM_TEMPLATE", "FB", "FEEDBACK", "STATE"}

(***************************************************************************)
(* Dirty flags around a render-pass flush, over SpecDraw: a textured sprite *)
(* sampling the frame-buffer page raises a TextureHazard flush in the       *)
(* middle of its own kick.                                                  *)
(***************************************************************************)
AppendAfterLastFlush(s) == \E k \in DOMAIN s.calls : s.calls[k].c = "append" /\ LastFlushIndex(s, "FB") < k

HazardFlushed(s) == HasFlush(s, "FB", "TextureHazard") \/ HasFlush(s, "FB", "CopyHazard")

(***************************************************************************)
(* C13: an operation whose last render-pass flush is not followed by an    *)
(* append in the same operation ends with every dirty bit set; a draw kick *)
(* that flushes and then appends ends with no dirty bit set, its primitive *)
(* being the only one of the new pass, whose state-vector table (and       *)
(* texture table when TME is set) was rebuilt by that same kick.           *)
(***************************************************************************)
C13_FlushThenRebuild == LastFlushIndex(gs, "FB") # 0 => IF AppendAfterLastFlush(gs) THEN DirtyFlags(gs) = {} /\ gs.render_pass.primitive_count = 1 /\ Len(gs.render_pass.state_vectors) = 1 /\ (gs.registers.prim.TME # 0 => Len(gs.render_pass.tex_infos) = 1) ELSE DirtyFlags(gs) = STATE_DIRTY_ALL_BITS

C13_Witness == op.c = "XYZ2" /\ HasFlush(gs, "FB", "TextureHazard") /\ AppendAfterLastFlush(gs) /\ "flush_rendering" \in CallNames(gs) /\ DirtyFlags(gs) = {}

(* C13 as stated: every dirty bit is set when the kick after a hazard      *)
(* flush begins.                                                           *)
C13_AllDirtyAtNextKick == [][(HazardFlushed(gs) /\ op'.c = "XYZ2") => DirtyFlags(gs) = STATE_DIRTY_ALL_BITS]_vars

(***************************************************************************)
(* The vertex queue: after a FRAME write, PRIM writes of every primitive   *)
(* type followed by vertex kicks through XYZ2 (drawing), XYZ3 (A+D write,  *)
(* no drawing kick) and the PACKED XYZ2 kick with and without ADC.  The    *)
(* k-th vertex after a PRIM write carries k in Z, and alternates between   *)
(* two positions so that every primitive covers pixel (0, 0).              *)
(***************************************************************************)
MaxQueueKicks == 6

MaxPrimWrites == 2

QueueVertex(k) == [X |-> (k % 2) * 8, Y |-> (k % 2) * 8, Z |-> k]

QueueStep(name, arg, s) == gs' = s /\ op' = Call(name, arg) /\ ghost' = (IF name = "PRIM" THEN [ghost EXCEPT !.kicks = 0, !.prim_writes = @ + 1] ELSE IF name = "FRAME_1" THEN ghost ELSE [ghost EXCEPT !.kicks = @ + 1]) /\ UNCHANGED <<probe, feed>>

Framed == Ctx(gs).frame.FBW # 0

QueueReady == Framed /\ ghost.prim_writes > 0 /\ ghost.kicks < MaxQueueKicks

QueueFRAME == \E v \in {FrameOf(1, {})} : ~Framed /\ QueueStep("FRAME_1", v, a_d_FRAME(Begin(gs), 0, v))

QueuePRIM == \E p \in 0..6 : Framed /\ ghost.prim_writes < MaxPrimWrites /\ QueueStep("PRIM", [PRIMZero EXCEPT !.PRIM = p, !.FST = 1], a_d_PRIM(Begin(gs), [PRIMZero EXCEPT !.PRIM = p, !.FST = 1]))

QueueXYZ2 == QueueReady /\ QueueStep("XYZ2", QueueVertex(ghost.kicks), a_d_XYZ2(Begin(gs), QueueVertex(ghost.kicks)))

QueueXYZ3 == QueueReady /\ QueueStep("XYZ3", QueueVertex(ghost.kicks), a_d_XYZ3(Begin(gs), QueueVertex(ghost.kicks)))

QueuePackedXYZ == \E adc \in {0, 1} : QueueReady /\ QueueStep("packed_XYZ", [X |-> QueueVertex(ghost.kicks).X, Y |-> QueueVertex(ghost.kicks).Y, Z |-> ghost.kicks, ADC |-> adc], packed_XYZ(Begin(gs), FALSE, [X |-> QueueVertex(ghost.kicks).X, Y |-> QueueVertex(ghost.kicks).Y, Z |-> ghost.kicks, ADC |-> adc]))

NextQueue == QueueFRAME \/ QueuePRIM \/ QueueXYZ2 \/ QueueXYZ3 \/ QueuePackedXYZ

SpecQueue == Init /\ [][NextQueue]_vars

(* The vertices of the primitive the k-th kick is to attempt, by PRIM type. *)
ExpectedVertices(PRIM, k) ==
  IF PRIM = 0 THEN {k}
  ELSE IF PRIM \in {1, 6} THEN (IF k % 2 = 1 THEN {k - 1, k} ELSE {})
  ELSE IF PRIM = 2 THEN (IF k >= 1 THEN {k - 1, k} ELSE {})
  ELSE IF PRIM = 3 THEN (IF k % 3 = 2 THEN {k - 2, k - 1, k} ELSE {})
  ELSE IF PRIM = 4 THEN (IF k >= 2 THEN {k - 2, k - 1, k} ELSE {})
  ELSE (IF k >= 2 THEN {0, k - 1, k} ELSE {})

AttemptedVertices(s) == IF Appended(s) THEN {s.calls[IndexOf(s, "append")].v.pos[i].z : i \in DOMAIN s.calls[IndexOf(s, "append")].v.pos} ELSE {}

DrawingKick == op.c = "XYZ2" \/ (op.c = "packed_XYZ" /\ op.v.ADC = 0)

VertexKick == op.c \in {"XYZ2", "XYZ3", "packed_XYZ"}

HandlerSelected == gs.draw_handler = HandlerNames[gs.registers.prim.PRIM + 1]

(***************************************************************************)
(* C14: the k-th vertex kick after a PRIM write that selected the draw     *)
(* handler attempts exactly the primitive its type prescribes (strip       *)
(* (k-2, k-1, k), fan (0, k-1, k), triangle list at k = 3j+2, line strip   *)
(* (k-1, k), line list and sprite at k = 2j+1, point (k)) when it is a     *)
(* drawing kick, and none when it is not, whatever kicks came before.      *)
(***************************************************************************)
C14_PrimitivesAttempted == (VertexKick /\ HandlerSelected) => AttemptedVertices(gs) = (IF DrawingKick THEN ExpectedVertices(gs.registers.prim.PRIM, ghost.kicks - 1) ELSE {})

(***************************************************************************)
(* Degenerate draws: sprites under every combination of the registers the  *)
(* degeneracy test reads (SCISSOR, TEST, FRAME.FBMSK, ZBUF.ZMSK) and both  *)
(* contexts.                                                               *)
(***************************************************************************)
MaxDegeneratePrims == 2

EmptyScissor == [SCISSORZero EXCEPT !.SCAX0 = 1]

TestInputs == {TESTZero, ZTestOn, [TESTZero EXCEPT !.ZTE = ZTE_ENABLED, !.ZTST = ZTST_NEVER], [TESTZero EXCEPT !.ATE = 1, !.ATST = ATST_NEVER, !.AFAIL = AFAIL_KEEP], [TESTZero EXCEPT !.ATE = 1, !.ATST = ATST_NEVER, !.AFAIL = 1]}

DegenerateFRAME == \E v \in {FrameOf(1, {}), FrameOf(1, AllBits)} : Do("FRAME_1", v, a_d_FRAME(Begin(gs), 0, v))

DegenerateZBUF == \E v \in {ZbufOf(0, 0), ZbufOf(0, 1)} : Do("ZBUF_1", v, a_d_ZBUF(Begin(gs), 0, v))

DegenerateTEST == \E v \in TestInputs : Do("TEST_1", v, a_d_TEST(Begin(gs), 0, v))

DegenerateSCISSOR == \E CTX \in {0}, v \in {SCISSORZero, EmptyScissor} : Do("SCISSOR", [CTX |-> CTX, v |-> v], a_d_SCISSOR(Begin(gs), CTX, v))

DegeneratePRIM == \E v \in {SpritePrim, [SpritePrim EXCEPT !.CTXT = 1]} : Do("PRIM", v, a_d_PRIM(Begin(gs), v))

DegenerateXYZ2 == \E v \in VertexInputs : Live /\ gs.render_pass.primitive_count < MaxDegeneratePrims /\ Do("XYZ2", v, a_d_XYZ2(Begin(gs), v))

NextDegenerate == DegenerateFRAME \/ DegenerateZBUF \/ DegenerateTEST \/ DegenerateSCISSOR \/ DegeneratePRIM \/ DegenerateXYZ2

SpecDegenerate == Init /\ [][NextDegenerate]_vars

(* The kick of this step completes a sprite: the queue holds its first     *)
(* vertex and the sprite handler is selected.                              *)
CompletesSprite == op'.c = "XYZ2" /\ gs.draw_handler = "Sprite" /\ gs.vertex_queue.count = 1

SpriteBB == PrimitiveBB(gs, TRUE, 2, <<[x |-> op'.v.X, y |-> op'.v.Y, z |-> op'.v.Z], gs.vertex_queue.pos[1]>>)

(***************************************************************************)
(* C15: a draw kick that completes a primitive while the active context is *)
(* degenerate (empty scissor, depth test NEVER, alpha test NEVER with      *)
(* AFAIL KEEP, or FBMSK all ones with depth not written) makes no back-end *)
(* or tracker call, appends nothing and leaves the render pass and the     *)
(* tracker as they were; one that is not degenerate and whose clipped      *)
(* bounding box is not empty appends exactly one primitive.                *)
(***************************************************************************)
C15_DegenerateDraws == [][CompletesSprite => IF DegenerateState(gs) THEN gs'.calls = <<>> /\ gs'.render_pass = gs.render_pass /\ gs'.tracker = gs.tracker ELSE ((SpriteBB.x <= SpriteBB.z /\ SpriteBB.y <= SpriteBB.w) => CountOf(gs', "append") = 1)]_vars

C15_Witness == op.c = "XYZ2" /\ gs.draw_handler = "Sprite" /\ gs.vertex_queue.count = 0 /\ DegenerateState(gs) /\ gs.calls = <<>> /\ gs.render_pass.primitive_count > 0 /\ Ctx(gs).scissor = SCISSORZero /\ Ctx(gs).frame.FBMSK = AllBits /\ Ctx(gs).zbuf.ZMSK = 1

(***************************************************************************)
(* The host-to-local transfer state machine alone: BITBLTBUF, TRXREG and   *)
(* TRXDIR writes of every direction and of zero and non-zero size, HWREG   *)
(* data one word or several at a time, and a TEX0 write whose CLUT load    *)
(* submits the partial payload while keeping the transfer alive.           *)
(***************************************************************************)
TrxBITBLTBUF == \E v \in {BitbltOf(2 * BLOCKS_PER_PAGE), [BitbltOf(2 * BLOCKS_PER_PAGE) EXCEPT !.DPSM = "PSMT4"]} : Do("BITBLTBUF", v, a_d_BITBLTBUF(Begin(gs), v))

TrxTRXREG == \E v \in {TrxregOf(0, 1), TrxregOf(1, 1), TrxregOf(6, 1), TrxregOf(8, 1)} : Do("TRXREG", v, a_d_TRXREG(Begin(gs), v))

TrxTRXDIR == \E v \in {[XDIR |-> HOST_TO_LOCAL], [XDIR |-> LOCAL_TO_HOST]} : Do("TRXDIR", v, a_d_TRXDIR(Begin(gs), v))

TrxHWREG == \E v \in {1, 2} : Do("HWREG", <<v>>, a_d_HWREG(Begin(gs), v))

TrxHWREGMulti == \E v \in {<<1, 2>>, <<2, 1, 2, 1>>} : Do("HWREG", v, a_d_HWREG_multi(Begin(gs), v))

TrxTEX0 == \E v \in {Tex0Of(BLOCKS_PER_PAGE, "PSMT4", 0)} : Do("TEX0_1", v, a_d_TEX0(Begin(gs), 0, v))

NextTrx == TrxBITBLTBUF \/ TrxTRXREG \/ TrxTRXDIR \/ TrxHWREG \/ TrxHWREGMulti \/ TrxTEX0

SpecTrx == Init /\ [][NextTrx]_vars

RequiredQwords(s) == (s.registers.trxreg.RRW * s.registers.trxreg.RRH * get_bits_per_pixel(s.registers.bitbltbuf.DPSM)) \div 64

CopyVramCalls(s) == {i \in DOMAIN s.calls : s.calls[i].c = "copy_vram"}

SubmitsRest(s, t, data) == \E i \in CopyVramCalls(t) : CopyVramCalls(t) = {i} /\ t.calls[i].v.host_data = data /\ t.calls[i].v.host_data_size_offset = s.transfer_state.last_flushed_qwords

Dropped(t) == t.transfer_state.host_to_local_payload = <<>> /\ t.transfer_state.last_flushed_qwords = 0

TrxdirWrite ==
  /\ IF Unsubmitted(gs) THEN SubmitsRest(gs, gs', gs.transfer_state.host_to_local_payload) ELSE gs'.calls = <<>>
  /\ Dropped(gs')
  /\ gs'.transfer_state.host_to_local_active <=> (op'.v.XDIR = HOST_TO_LOCAL /\ RequiredQwords(gs) # 0)
  /\ op'.v.XDIR = HOST_TO_LOCAL => gs'.transfer_state.required_qwords = RequiredQwords(gs)

HwregWrite ==
  LET ts == gs.transfer_state
      data == ts.host_to_local_payload \o op'.v
  IN IF ~ts.host_to_local_active THEN gs'.transfer_state = ts /\ gs'.calls = <<>>
     ELSE IF Len(data) >= ts.required_qwords THEN SubmitsRest(gs, gs', data) /\ Dropped(gs') /\ ~gs'.transfer_state.host_to_local_active
     ELSE gs'.transfer_state = [ts EXCEPT !.host_to_local_payload = data] /\ gs'.calls = <<>>

(***************************************************************************)
(* C16: a TRXDIR write submits the unsubmitted rest of a previous transfer *)
(* (one copy_vram at the offset already submitted) and empties the payload; *)
(* the new transfer is active exactly for HOST->LOCAL with                  *)
(* RRW * RRH * bpp(DPSM) / 64 # 0, and otherwise (LOCAL->HOST, zero size)  *)
(* nothing more is called.  HWREG data is ignored while inactive, appended *)
(* while active, and submitted with the transfer going inactive as soon as *)
(* the word count reaches the required count.                              *)
(***************************************************************************)
C16_TransferStateMachine == [][(op'.c = "TRXDIR" => TrxdirWrite) /\ (op'.c = "HWREG" => HwregWrite)]_vars

C16_Witness == op.c = "TRXDIR" /\ op.v.XDIR = HOST_TO_LOCAL /\ "copy_vram" \in CallNames(gs) /\ gs.calls[IndexOf(gs, "copy_vram")].v.host_data_size_offset > 0 /\ gs.transfer_state.host_to_local_active /\ Dropped(gs) /\ gs.transfer_state.required_qwords = 4

(***************************************************************************)
(* The calls of one flush_pending_transfer, over SpecTransfer: TRXDIR and  *)
(* the completing HWREG write retire the transfer, a textured draw submits *)
(* the partial payload and keeps it alive.                                 *)
(***************************************************************************)
TransferCallNames == {"mark_transfer_write", "invalidate_texture_cache", "copy_vram"}

TransferDstRect(s) == compute_page_rect(s.transfer_state.copy.bitbltbuf.DBP, s.transfer_state.copy.trxpos.DSAX, s.transfer_state.copy.trxpos.DSAY, s.transfer_state.copy.trxreg.RRW, s.transfer_state.copy.trxreg.RRH, s.transfer_state.copy.bitbltbuf.DBW, s.transfer_state.copy.bitbltbuf.DPSM)

FlushCalls(s, t, data) ==
  \E i, j, k \in DOMAIN t.calls :
     /\ i < j /\ j < k
     /\ t.calls[i] = Call("mark_transfer_write", TransferDstRect(s))
     /\ t.calls[j] = Call("invalidate_texture_cache", s.render_pass.clut_instance)
     /\ t.calls[k].c = "copy_vram"
     /\ t.calls[k].v.host_data = data
     /\ t.calls[k].v.host_data_size_offset = s.transfer_state.last_flushed_qwords
     /\ \A n \in DOMAIN t.calls : t.calls[n].c \in TransferCallNames => n \in {i, j, k}

NoFlushCalls(t) == CallNames(t) \cap TransferCallNames = {}

TextureDirtyAfter(s, t) ==
  LET base == IF \E i \in DOMAIN t.calls : IsFlush(t.calls[i], "FB") THEN STATE_DIRTY_ALL_BITS ELSE DirtyFlags(s)
  IN DirtyFlags(t) = (IF t.tracker.cached_textures # s.tracker.cached_textures THEN base \cup {"PRIM_TEMPLATE", "TEX"} ELSE base)

Retired(t) == Dropped(t) /\ ~t.transfer_state.host_to_local_active

KeptAlive(s, t) == t.transfer_state.host_to_local_active /\ t.transfer_state.host_to_local_payload = s.transfer_state.host_to_local_payload /\ t.transfer_state.last_flushed_qwords = Len(s.transfer_state.host_to_local_payload)

(***************************************************************************)
(* C17: a flush_pending_transfer that finds unsubmitted payload calls      *)
(* mark_transfer_write(destination rect), invalidate_texture_cache(current *)
(* CLUT instance) and copy_vram(offset = words already submitted), once    *)
(* each and in this order, and texture state becomes dirty exactly when    *)
(* cached textures were invalidated; one that finds none makes none of     *)
(* these calls.  With keep_alive false (TRXDIR, completing HWREG) the      *)
(* transfer ends empty with zero flushed count, with keep_alive true (a    *)
(* textured draw) it stays active with its payload, all of it flushed.     *)
(***************************************************************************)
C17_FlushPendingTransfer ==
  [][/\ op'.c = "TRXDIR" => ((IF Unsubmitted(gs) THEN FlushCalls(gs, gs', gs.transfer_state.host_to_local_payload) ELSE NoFlushCalls(gs')) /\ Dropped(gs') /\ TextureDirtyAfter(gs, gs'))
     /\ op'.c = "HWREG" => (IF gs.transfer_state.host_to_local_active /\ Len(gs.transfer_state.host_to_local_payload) + 1 >= gs.transfer_state.required_qwords
                            THEN FlushCalls(gs, gs', Append(gs.transfer_state.host_to_local_payload, op'.v)) /\ Retired(gs') /\ TextureDirtyAfter(gs, gs')
                            ELSE NoFlushCalls(gs'))
     /\ op'.c = "XYZ2" => (IF Unsubmitted(gs) /\ TexturedAppend(gs') THEN FlushCalls(gs, gs', gs.transfer_state.host_to_local_payload) /\ KeptAlive(gs, gs') ELSE NoFlushCalls(gs') /\ gs'.transfer_state = gs.transfer_state)]_vars

C17_Witness == op.c = "HWREG" /\ "copy_vram" \in CallNames(gs) /\ gs.calls[IndexOf(gs, "copy_vram")].v.host_data_size_offset = 2 /\ Retired(gs) /\ {"PRIM_TEMPLATE", "TEX"} \subseteq DirtyFlags(gs) /\ DirtyFlags(gs) # STATE_DIRTY_ALL_BITS /\ "flush" \in CallNames(gs)

(***************************************************************************)
(* The flush callback driven with every flag mask, with pages pending in   *)
(* both directions and a render pass that may hold sprites.                *)
(***************************************************************************)
FlushFlagBits == {"HOST_VRAM_SYNC", "COPY", "CACHE", "FB", "WRITE_BACK"}

CallbackSyncHost == \E p \in {0, 1} : Do("sync_host_vram_page", p, sync_host_vram_page(Begin(gs), p))

CallbackSyncBack == \E p \in {0, 1} : Do("sync_vram_host_page", p, sync_vram_host_page(Begin(gs), p))

CallbackFlush == \E flags \in SUBSET FlushFlagBits : Do("flush", flags, flush(Begin(gs), flags, "SubmissionFlush"))

CallbackFRAME == \E v \in {FrameOf(1, {})} : Do("FRAME_1", v, a_d_FRAME(Begin(gs), 0, v))

CallbackPRIM == \E v \in {SpritePrim} : Do("PRIM", v, a_d_PRIM(Begin(gs), v))

CallbackXYZ2 == \E v \in VertexInputs : Live /\ Do("XYZ2", v, a_d_XYZ2(Begin(gs), v))

NextCallback == CallbackSyncHost \/ CallbackSyncBack \/ CallbackFlush \/ CallbackFRAME \/ CallbackPRIM \/ CallbackXYZ2

SpecCallback == Init /\ [][NextCallback]_vars

Opt(cond, name) == IF cond THEN <<name>> ELSE <<>>

(* The back-end calls a flush with these flags is to make, in order.       *)
PhaseCalls(s, flags) ==
  Opt("HOST_VRAM_SYNC" \in flags /\ s.sync_host_vram_pages # {}, "flush_host_vram_copy")
  \o Opt("COPY" \in flags /\ flags \cap {"CACHE", "FB", "WRITE_BACK"} # {}, "flush_transfer")
  \o Opt("COPY" \in flags /\ flags \cap {"CACHE", "FB", "WRITE_BACK"} = {}, "transfer_overlap_barrier")
  \o Opt("CACHE" \in flags, "flush_cache_upload")
  \o Opt("FB" \in flags /\ s.render_pass.primitive_count # 0, "flush_rendering")
  \o Opt("WRITE_BACK" \in flags /\ s.sync_vram_host_pages # {}, "flush_readback")

BackendCalls(t) == [i \in 1..(Len(t.calls) - 1) |-> t.calls[i + 1].c]

PagesDelivered(s, t, name, pages) == \A i \in DOMAIN t.calls : t.calls[i].c = name => t.calls[i].v = pages

(***************************************************************************)
(* C18: for every flag mask the flush callback issues its back-end calls   *)
(* in the order host->VRAM sync, copy (flush_transfer, or                  *)
(* transfer_overlap_barrier when none of CACHE, FB, WRITE_BACK is set),    *)
(* cache upload, render pass, read-back, each only when its bit is set;    *)
(* the pending page set of a direction is handed over whole and is empty   *)
(* afterwards, and is untouched when its bit is clear.                     *)
(***************************************************************************)
C18_FlushPhases ==
  [][op'.c = "flush" =>
       /\ BackendCalls(gs') = PhaseCalls(gs, op'.v)
       /\ PagesDelivered(gs, gs', "flush_host_vram_copy", gs.sync_host_vram_pages)
       /\ PagesDelivered(gs, gs', "flush_readback", gs.sync_vram_host_pages)
       /\ gs'.sync_host_vram_pages = (IF "HOST_VRAM_SYNC" \in op'.v THEN {} ELSE gs.sync_host_vram_pages)
       /\ gs'.sync_vram_host_pages = (IF "WRITE_BACK" \in op'.v THEN {} ELSE gs.sync_vram_host_pages)]_vars

C18_Witness == op.c = "flush" /\ op.v = FlushFlagBits /\ BackendCalls(gs) = <<"flush_host_vram_copy", "flush_transfer", "flush_cache_upload", "flush_rendering", "flush_readback">> /\ gs.calls[2].v = {0, 1} /\ gs.sync_host_vram_pages = {} /\ gs.sync_vram_host_pages = {}

(***************************************************************************)
(* Copy hazard, over SpecTransfer: host data written to the texture's page *)
(* (page 2) is pending as a copy when a textured draw samples the page.    *)
(***************************************************************************)
SampledPage(s) == Ctx(s).tex0.TBP0 \div BLOCKS_PER_PAGE

CopyPending(s) == s.tracker.page_state[SampledPage(s)].copy_write_block_mask # {}

(* The last operation was a HWREG write of a transfer into the sampled     *)
(* page, which either completed it or left its payload unsubmitted.        *)
TransferJustWritten == op.c = "HWREG" /\ gs.transfer_state.copy.bitbltbuf.DBP \div BLOCKS_PER_PAGE = SampledPage(gs) /\ (Unsubmitted(gs) \/ "copy_vram" \in CallNames(gs))

CopyFlushBeforeAppend(t) ==
  \E f, c, u, a \in DOMAIN t.calls :
     /\ f < c /\ c < u /\ u < a
     /\ t.calls[f].c = "flush" /\ {"COPY", "CACHE"} \subseteq t.calls[f].v.flags /\ "FB" \notin t.calls[f].v.flags /\ t.calls[f].v.reason = "CopyHazard"
     /\ t.calls[c].c = "flush_transfer"
     /\ t.calls[u].c = "flush_cache_upload"
     /\ t.calls[a].c = "append"

(***************************************************************************)
(* C19: a textured draw kick that appends while host data copied into the  *)
(* sampled page is pending (submitted earlier or by this kick) raises a    *)
(* flush callback with the COPY and CACHE bits and without the FB bit,     *)
(* which calls flush_transfer and then flush_cache_upload before the       *)
(* primitive is appended; the primitive is appended once and stays in the  *)
(* open render pass.                                                       *)
(***************************************************************************)
C19_CopyHazardFlush == [][(op'.c = "XYZ2" /\ TexturedAppend(gs') /\ TransferJustWritten) => (CopyFlushBeforeAppend(gs') /\ CountOf(gs', "append") = 1 /\ (IndexOf(gs', "flush_rendering") = 0 \/ IndexOf(gs', "append") < IndexOf(gs', "flush_rendering")) /\ ~CopyPending(gs'))]_vars

C19_Witness == op.c = "XYZ2" /\ TexturedAppend(gs) /\ CopyFlushBeforeAppend(gs) /\ "copy_vram" \notin CallNames(gs) /\ gs.render_pass.primitive_count = 1 /\ ~gs.transfer_state.host_to_local_active

(***************************************************************************)
(* Tile-size choice of flush_render_pass as a function of the pass it is   *)
(* given: the bounding box and the primitive count are drawn from sets     *)
(* that hold both sides of every threshold, and the pass is then flushed   *)
(* under each super-sampling rate.  The largest box is the 2048 x 2048     *)
(* scissor range; the largest count is the largest primitive index of a    *)
(* pass plus one.                                                          *)
(***************************************************************************)
MaxPassPrimitives == 65536

TileExtents == {0, 7, 8, 799, 2047}

PassSizes == {1, 2, 999, 1000, 9999, 10000, 65535, MaxPassPrimitives}

PassBB(z, w) == [x |-> 0, y |-> 0, z |-> z, w |-> w]

InitTile ==
  /\ \E z \in TileExtents, w \in TileExtents, n \in PassSizes :
       gs = [GSInit EXCEPT !.render_pass.bb = PassBB(z, w), !.render_pass.primitive_count = n]
  /\ op = Call("init", <<>>) /\ probe = <<>> /\ feed = <<>> /\ ghost = GhostInit

TileSetSuperSampling == \E r \in SuperSampling : Do("set_super_sampling_rate", r, set_super_sampling_rate(Begin(gs), r))

TileFlush == Do("flush_render_pass", "SubmissionFlush", flush_render_pass(Begin(gs), "SubmissionFlush"))

NextTile == TileSetSuperSampling \/ TileFlush

SpecTile == InitTile /\ [][NextTile]_vars

TrueCost(bb, n) == WideProduct(tile_width(bb) * tile_height(bb), n)

SpecTileSize(cost, vertical_super_sampling) ==
  LET chosen == IF WideLess(cost, Wide(10000)) THEN 3
                ELSE IF WideLess(cost, Wide(10000000)) THEN 4
                ELSE IF WideLess(cost, Wide(100000000)) THEN 5
                ELSE 6
  IN IF vertical_super_sampling /\ chosen > 3 THEN chosen - 1 ELSE chosen

EmittedPass(s) == s.calls[IndexOf(s, "flush_rendering")].v

EmitsPass == op'.c = "flush_render_pass" /\ gs.render_pass.primitive_count # 0

Wraps(bb, n) == TrueCost(bb, n).hi >= 65536

TileSizeBelowWrap ==
  [][(EmitsPass /\ ~Wraps(gs.render_pass.bb, gs.render_pass.primitive_count)) =>
       LET rp == gs.render_pass
           size == EmittedPass(gs').coarse_tile_size_log2
       IN /\ size = SpecTileSize(TrueCost(rp.bb, rp.primitive_count), gs.sampling_rate_y_log2 # 0)
          /\ size \in 3..6
          /\ \A z \in TileExtents, w \in TileExtents, n \in PassSizes :
               (~Wraps(PassBB(z, w), n) /\ ~WideLess(TrueCost(PassBB(z, w), n), TrueCost(rp.bb, rp.primitive_count)))
                 => coarse_tile_size_log2(PassBB(z, w), n, gs.sampling_rate_y_log2) >= size]_vars

TileSizeWrapped == op.c = "flush_render_pass" /\ "flush_rendering" \in CallNames(gs) /\ EmittedPass(gs).num_primitives = MaxPassPrimitives /\ EmittedPass(gs).coarse_tile_size_log2 = 3 /\ EmittedPass(gs).sampling_rate_y_log2 = 0

(***************************************************************************)
(* GIF path parser.  A 128-bit word is the sequence of its eight 16-bit    *)
(* parts, least significant first; the tag fields, the PACKED sub-forms    *)
(* and the 64-bit register payloads are cut out of these parts, so that    *)
(* the same word reads as a tag or as data depending on the path cursor.   *)
(***************************************************************************)
PACKED == 0

REGLIST == 1

GIFAddr == [PRIM |-> 0, RGBAQ |-> 1, ST |-> 2, UV |-> 3, XYZF2 |-> 4, XYZ2 |-> 5, TEX0_1 |-> 6, TEX0_2 |-> 7, CLAMP_1 |-> 8, CLAMP_2 |-> 9, FOG |-> 10, XYZF3 |-> 12, XYZ3 |-> 13, A_D |-> 14, NOP |-> 15]

RegisterAddr == [PRIM |-> 0, RGBAQ |-> 1, ST |-> 2, UV |-> 3, XYZF2 |-> 4, XYZ2 |-> 5, FOG |-> 10, XYZF3 |-> 12, XYZ3 |-> 13, HWREG |-> 84]

TagNLOOP(q) == q[1] % 32768

TagPRE(q) == (q[3] \div 16384) % 2

TagPRIM(q) == (q[3] \div 32768) + 2 * (q[4] % 1024)

TagFLG(q) == (q[4] \div 1024) % 4

TagNREG(q) == q[4] \div 4096

TagREG(q, k) == (q[5 + (k \div 4)] \div (16 ^ (k % 4))) % 16

TagREGS(q, n) == [k \in 1..n |-> TagREG(q, k - 1)]

Word64(q, j) == IF j = 0 THEN <<q[1], q[2], q[3], q[4]>> ELSE <<q[5], q[6], q[7], q[8]>>

Bits32(lo, hi) == lo + 65536 * hi

PRIMBits(d) == [PRIM |-> d[1] % 8, IIP |-> (d[1] \div 8) % 2, TME |-> (d[1] \div 16) % 2, FGE |-> (d[1] \div 32) % 2, ABE |-> (d[1] \div 64) % 2, AA1 |-> (d[1] \div 128) % 2, FST |-> (d[1] \div 256) % 2, CTXT |-> (d[1] \div 512) % 2, FIX |-> (d[1] \div 1024) % 2]

RGBAQBits(d) == [R |-> d[1] % 256, G |-> d[1] \div 256, B |-> d[2] % 256, A |-> d[2] \div 256, Q |-> Bits32(d[3], d[4])]

STBits(d) == [S |-> Bits32(d[1], d[2]), T |-> Bits32(d[3], d[4])]

UVBits(d) == [U |-> d[1] % 16384, V |-> d[2] % 16384]

XYZBits(d) == [X |-> d[1], Y |-> d[2], Z |-> Bits32(d[3], d[4]), F |-> 0]

XYZFBits(d) == [X |-> d[1], Y |-> d[2], Z |-> d[3] + 65536 * (d[4] % 256), F |-> d[4] \div 256]

FOGBits(d) == d[4] \div 256

PackedRGBAQBits(q) == [R |-> q[1] % 256, G |-> q[3] % 256, B |-> q[5] % 256, A |-> q[7] % 256]

PackedSTBits(q) == [S |-> Bits32(q[1], q[2]), T |-> Bits32(q[3], q[4]), Q |-> Bits32(q[5], q[6])]

PackedUVBits(q) == [U |-> q[1] % 16384, V |-> q[3] % 16384]

PackedXYZBits(q) == [X |-> q[1], Y |-> q[3], Z |-> Bits32(q[5], q[6]), F |-> 0, ADC |-> q[7] \div 32768]

PackedXYZFBits(q) == [X |-> q[1], Y |-> q[3], Z |-> (q[5] \div 16) + 4096 * (q[6] % 4096), F |-> (q[7] \div 16) % 256, ADC |-> q[7] \div 32768]

PackedFOGBits(q) == (q[7] \div 16) % 256

PackedADBits(q) == [data |-> Word64(q, 0), ADDR |-> q[5] % 256]

(***************************************************************************)
(* A handler call is kept as data: the handler and what it was given.      *)
(* Every vertex handler is one vertex kick followed by at most one drawing *)
(* kick, which goes through draw_handler (drawing_kick) or through the     *)
(* switch on a PRIM template argument (drawing_kick<PRIM>).  The dispatch  *)
(* tables below return the call; run_handler makes it.                     *)
(***************************************************************************)
Handler(h, v) == [h |-> h, v |-> v, FOG |-> FALSE, kick |-> "none", PRIM |-> 0, adc |-> FALSE]

VertexHandler(FOG, bits, kick, PRIM, adc) == [h |-> "vertex_kick", v |-> bits, FOG |-> FOG, kick |-> kick, PRIM |-> PRIM, adc |-> adc]

a_d_FOG(s, payload) == [s EXCEPT !.registers.fog = payload]

packed_RGBAQ(s, q) ==
  LET rgba == PackedRGBAQBits(q)
  IN [s EXCEPT !.registers.rgbaq = [R |-> rgba.R, G |-> rgba.G, B |-> rgba.B, A |-> rgba.A, Q |-> s.registers.internal_q]]

packed_ST(s, q) ==
  LET st == PackedSTBits(q)
  IN [s EXCEPT !.registers.st = [S |-> st.S, T |-> st.T], !.registers.internal_q = st.Q]

packed_UV(s, q) == [s EXCEPT !.registers.uv = PackedUVBits(q)]

packed_FOG(s, q) == [s EXCEPT !.registers.fog = PackedFOGBits(q)]

drawing_kick_through(s, kick, PRIM, adc) ==
  IF kick = "draw_handler" THEN drawing_kick(s, adc)
  ELSE IF kick = "template" THEN drawing_kick_PRIM(s, PRIM, adc)
  ELSE s

run_handler(s, call) ==
  CASE call.h = "a_d_PRIM" -> a_d_PRIM(s, call.v)
    [] call.h = "a_d_RGBAQ" -> a_d_RGBAQ(s, call.v)
    [] call.h = "a_d_ST" -> a_d_ST(s, call.v)
    [] call.h = "a_d_UV" -> a_d_UV(s, call.v)
    [] call.h = "a_d_FOG" -> a_d_FOG(s, call.v)
    [] call.h = "a_d_HWREG" -> a_d_HWREG(s, call.v)
    [] call.h = "a_d_HWREG_multi" -> a_d_HWREG_multi(s, call.v)
    [] call.h = "packed_RGBAQ" -> packed_RGBAQ(s, call.v)
    [] call.h = "packed_ST" -> packed_ST(s, call.v)
    [] call.h = "packed_UV" -> packed_UV(s, call.v)
    [] call.h = "packed_FOG" -> packed_FOG(s, call.v)
    [] call.h = "vertex_kick" -> drawing_kick_through(IF call.FOG THEN vertex_kick_xyzf(s, call.v) ELSE vertex_kick_xyz(s, call.v), call.kick, call.PRIM, call.adc)
    [] call.h = "nop" -> s
    [] OTHER -> [s EXCEPT !.fault = "register outside the model"]

RECURSIVE run_handlers(_, _, _)
run_handlers(s, handler_calls, k) ==
  IF k > Len(handler_calls) THEN s ELSE run_handlers(run_handler(s, handler_calls[k]), handler_calls, k + 1)

(***************************************************************************)
(* ad_handlers, reglist_handlers and packed_handlers as set up by          *)
(* setup_handlers.  a_d_XYZ2 and a_d_XYZF2 kick through draw_handler with  *)
(* adc false, a_d_XYZ3 and a_d_XYZF3 only store the vertex.                *)
(***************************************************************************)
ad_handlers(addr, payload) ==
  CASE addr = RegisterAddr.PRIM -> Handler("a_d_PRIM", PRIMBits(payload))
    [] addr = RegisterAddr.RGBAQ -> Handler("a_d_RGBAQ", RGBAQBits(payload))
    [] addr = RegisterAddr.ST -> Handler("a_d_ST", STBits(payload))
    [] addr = RegisterAddr.UV -> Handler("a_d_UV", UVBits(payload))
    [] addr = RegisterAddr.XYZF2 -> VertexHandler(TRUE, XYZFBits(payload), "draw_handler", 0, FALSE)
    [] addr = RegisterAddr.XYZ2 -> VertexHandler(FALSE, XYZBits(payload), "draw_handler", 0, FALSE)
    [] addr = RegisterAddr.FOG -> Handler("a_d_FOG", FOGBits(payload))
    [] addr = RegisterAddr.XYZF3 -> VertexHandler(TRUE, XYZFBits(payload), "none", 0, FALSE)
    [] addr = RegisterAddr.XYZ3 -> VertexHandler(FALSE, XYZBits(payload), "none", 0, FALSE)
    [] addr = RegisterAddr.HWREG -> Handler("a_d_HWREG", payload)
    [] OTHER -> Handler("outside", payload)

write_register(addr, payload) == ad_handlers(addr, payload)

reglist_handlers(addr, payload) ==
  IF addr \in {GIFAddr.PRIM, GIFAddr.RGBAQ, GIFAddr.ST, GIFAddr.UV, GIFAddr.XYZF2, GIFAddr.XYZ2, GIFAddr.FOG, GIFAddr.XYZF3, GIFAddr.XYZ3}
  THEN ad_handlers(addr, payload)
  ELSE IF addr \in {GIFAddr.TEX0_1, GIFAddr.TEX0_2, GIFAddr.CLAMP_1, GIFAddr.CLAMP_2} THEN Handler("outside", payload)
  ELSE Handler("nop", payload)

packed_XYZF(ADC, q) == VertexHandler(TRUE, PackedXYZFBits(q), "draw_handler", 0, ADC \/ PackedXYZFBits(q).ADC # 0)

packed_XYZ_draw_handler(ADC, q) == VertexHandler(FALSE, PackedXYZBits(q), "draw_handler", 0, ADC \/ PackedXYZBits(q).ADC # 0)

packed_XYZ_PRIM(ADC, FOG, PRIM, q) ==
  IF FOG
  THEN VertexHandler(TRUE, PackedXYZFBits(q), "template", PRIM, ADC \/ PackedXYZFBits(q).ADC # 0)
  ELSE VertexHandler(FALSE, PackedXYZBits(q), "template", PRIM, ADC \/ PackedXYZBits(q).ADC # 0)

packed_handlers(addr, q) ==
  CASE addr = GIFAddr.PRIM -> Handler("a_d_PRIM", PRIMBits(Word64(q, 0)))
    [] addr = GIFAddr.RGBAQ -> Handler("packed_RGBAQ", q)
    [] addr = GIFAddr.ST -> Handler("packed_ST", q)
    [] addr = GIFAddr.UV -> Handler("packed_UV", q)
    [] addr = GIFAddr.XYZF2 -> packed_XYZF(FALSE, q)
    [] addr = GIFAddr.XYZ2 -> packed_XYZ_draw_handler(FALSE, q)
    [] addr \in {GIFAddr.TEX0_1, GIFAddr.TEX0_2, GIFAddr.CLAMP_1, GIFAddr.CLAMP_2} -> Handler("outside", q)
    [] addr = GIFAddr.FOG -> Handler("packed_FOG", q)
    [] addr = GIFAddr.XYZF3 -> packed_XYZF(TRUE, q)
    [] addr = GIFAddr.XYZ3 -> packed_XYZ_draw_handler(TRUE, q)
    [] OTHER -> Handler("nop", q)

(***************************************************************************)
(* The whole-loop handlers: the handler calls they make on the words at    *)
(* `at`, `at` + 1, ... of the memory `words`.                              *)
(***************************************************************************)
RECURSIVE packed_STQRGBAXYZ(_, _, _, _, _)
packed_STQRGBAXYZ(FOG, PRIM, words, at, num_vertices) ==
  IF num_vertices = 0 THEN <<>>
  ELSE <<Handler("packed_ST", words[at]), Handler("packed_RGBAQ", words[at + 1]), packed_XYZ_PRIM(FALSE, FOG, PRIM, words[at + 2])>>
         \o packed_STQRGBAXYZ(FOG, PRIM, words, at + 3, num_vertices - 1)

RECURSIVE packed_UVRGBAXYZ(_, _, _, _, _)
packed_UVRGBAXYZ(FOG, PRIM, words, at, num_vertices) ==
  IF num_vertices = 0 THEN <<>>
  ELSE <<Handler("packed_UV", words[at]), Handler("packed_RGBAQ", words[at + 1]), packed_XYZ_PRIM(FALSE, FOG, PRIM, words[at + 2])>>
         \o packed_UVRGBAXYZ(FOG, PRIM, words, at + 3, num_vertices - 1)

RECURSIVE packed_STXYZSTRGBAXYZ_sprite(_, _, _, _)
packed_STXYZSTRGBAXYZ_sprite(FOG, words, at, num_sprites) ==
  IF num_sprites = 0 THEN <<>>
  ELSE <<Handler("packed_ST", words[at]), packed_XYZ_PRIM(FALSE, FOG, 6, words[at + 1]),
         Handler("packed_ST", words[at + 2]), Handler("packed_RGBAQ", words[at + 3]), packed_XYZ_PRIM(FALSE, FOG, 6, words[at + 4])>>
         \o packed_STXYZSTRGBAXYZ_sprite(FOG, words, at + 5, num_sprites - 1)

RECURSIVE packed_ADONLY(_, _, _)
packed_ADONLY(words, at, num_writes) ==
  IF num_writes = 0 THEN <<>>
  ELSE <<write_register(PackedADBits(words[at]).ADDR, PackedADBits(words[at]).data)>> \o packed_ADONLY(words, at + 1, num_writes - 1)

NoHandler == [h |-> "nullptr"]

OptimizedHandler(h, FOG, PRIM, factor) == [h |-> h, FOG |-> FOG, PRIM |-> PRIM, factor |-> factor]

CallOptimizedHandler(hand, words, at, nloops) ==
  CASE hand.h = "packed_STQRGBAXYZ" -> packed_STQRGBAXYZ(hand.FOG, hand.PRIM, words, at, nloops * hand.factor)
    [] hand.h = "packed_UVRGBAXYZ" -> packed_UVRGBAXYZ(hand.FOG, hand.PRIM, words, at, nloops * hand.factor)
    [] hand.h = "packed_STXYZSTRGBAXYZ_sprite" -> packed_STXYZSTRGBAXYZ_sprite(hand.FOG, words, at, nloops)
    [] hand.h = "packed_ADONLY" -> packed_ADONLY(words, at, nloops * hand.factor)

(***************************************************************************)
(* GSInterface::update_optimized_gif_handler.  A REGS mask is the          *)
(* sequence of its 4-bit slots.                                            *)
(***************************************************************************)
STQRGBAXYZ2_Mask == <<GIFAddr.ST, GIFAddr.RGBAQ, GIFAddr.XYZ2>>

STQRGBAXYZF2_Mask == <<GIFAddr.ST, GIFAddr.RGBAQ, GIFAddr.XYZF2>>

UVRGBAXYZ2_Mask == <<GIFAddr.UV, GIFAddr.RGBAQ, GIFAddr.XYZ2>>

UVRGBAXYZF2_Mask == <<GIFAddr.UV, GIFAddr.RGBAQ, GIFAddr.XYZF2>>

STXYZFSTRGBAXYZF_Mask == <<GIFAddr.ST, GIFAddr.XYZF2, GIFAddr.ST, GIFAddr.RGBAQ, GIFAddr.XYZF2>>

STXYZFSTRGBAXYZ_Mask == <<GIFAddr.ST, GIFAddr.XYZ2, GIFAddr.ST, GIFAddr.RGBAQ, GIFAddr.XYZ2>>

OptimizedHandlerFor(tag, PRIM) ==
  LET nreg == TagNREG(tag)
      count == IF nreg = 0 THEN 16 ELSE nreg
      regs == TagREGS(tag, count)
  IN IF TagFLG(tag) # PACKED \/ TagNLOOP(tag) = 0 THEN NoHandler
     ELSE IF nreg = 3 /\ regs = STQRGBAXYZ2_Mask THEN OptimizedHandler("packed_STQRGBAXYZ", FALSE, PRIM, 1)
     ELSE IF nreg = 3 /\ regs = STQRGBAXYZF2_Mask THEN OptimizedHandler("packed_STQRGBAXYZ", TRUE, PRIM, 1)
     ELSE IF nreg = 3 /\ regs = UVRGBAXYZ2_Mask THEN OptimizedHandler("packed_UVRGBAXYZ", FALSE, PRIM, 1)
     ELSE IF nreg = 3 /\ regs = UVRGBAXYZF2_Mask THEN OptimizedHandler("packed_UVRGBAXYZ", TRUE, PRIM, 1)
     ELSE IF nreg = 5 /\ regs = STXYZFSTRGBAXYZF_Mask /\ PRIM = 6 THEN OptimizedHandler("packed_STXYZSTRGBAXYZ_sprite", TRUE, 6, 1)
     ELSE IF nreg = 5 /\ regs = STXYZFSTRGBAXYZ_Mask /\ PRIM = 6 THEN OptimizedHandler("packed_STXYZSTRGBAXYZ_sprite", FALSE, 6, 1)
     ELSE IF nreg = 6 /\ regs = STQRGBAXYZ2_Mask \o STQRGBAXYZ2_Mask /\ PRIM = 1 THEN OptimizedHandler("packed_STQRGBAXYZ", FALSE, 1, 2)
     ELSE IF nreg = 6 /\ regs = STQRGBAXYZF2_Mask \o STQRGBAXYZF2_Mask /\ PRIM = 1 THEN OptimizedHandler("packed_STQRGBAXYZ", TRUE, 1, 2)
     ELSE IF nreg = 9 /\ regs = STQRGBAXYZ2_Mask \o STQRGBAXYZ2_Mask \o STQRGBAXYZ2_Mask /\ PRIM = 3 THEN OptimizedHandler("packed_STQRGBAXYZ", FALSE, 3, 3)
     ELSE IF nreg = 9 /\ regs = STQRGBAXYZF2_Mask \o STQRGBAXYZF2_Mask \o STQRGBAXYZF2_Mask /\ PRIM = 3 THEN OptimizedHandler("packed_STQRGBAXYZ", TRUE, 3, 3)
     ELSE IF \A k \in 1..count : regs[k] = GIFAddr.A_D THEN OptimizedHandler("packed_ADONLY", FALSE, 0, count)
     ELSE NoHandler

update_optimized_gif_handler(s, path) == [s EXCEPT !.optimized_draw_handler[path] = OptimizedHandlerFor(s.paths[path].tag, s.registers.prim.PRIM)]

(***************************************************************************)
(* GSInterface::gif_transfer.  `data` is the memory behind the pointer:    *)
(* the first `size` words are the transfer, the words after them are what  *)
(* a read past the end of the transfer returns.  `i` counts from 0 as in   *)
(* the source.  `optimized` is FALSE for the generic dispatcher alone.     *)
(* One pass of the loop is the handler calls it makes and the cursor       *)
(* values it leaves; a pass that consumes nothing and changes nothing      *)
(* repeats forever, and the run is then cut with a marker.                 *)
(***************************************************************************)
NregOf(tag) == IF TagNREG(tag) = 0 THEN 16 ELSE TagNREG(tag)

Pass(handler_calls, i, loop, reg) == [calls |-> handler_calls, i |-> i, loop |-> loop, reg |-> reg]

OptimizedPass(path, hand, data, size, i, nreg) ==
  LET nloops_to_run == Min(size \div nreg, TagNLOOP(path.tag) - path.loop)
  IN Pass(CallOptimizedHandler(hand, data, i + 1, nloops_to_run), i + nloops_to_run * nreg, path.loop + nloops_to_run, path.reg)

PackedPass(path, data, i, nreg) ==
  LET addr == TagREG(path.tag, path.reg)
      ad == PackedADBits(data[i + 1])
      end_of_loop == path.reg + 1 = nreg
  IN Pass(<<IF addr = GIFAddr.A_D THEN write_register(ad.ADDR, ad.data) ELSE packed_handlers(addr, data[i + 1])>>,
          i + 1, IF end_of_loop THEN path.loop + 1 ELSE path.loop, IF end_of_loop THEN 0 ELSE path.reg + 1)

ReglistPass(path, data, i, nreg) ==
  LET q == data[i + 1]
      first == reglist_handlers(TagREG(path.tag, path.reg), Word64(q, 0))
      end_of_loop == path.reg + 1 = nreg
      loop == IF end_of_loop THEN path.loop + 1 ELSE path.loop
      reg == IF end_of_loop THEN 0 ELSE path.reg + 1
      second == reglist_handlers(TagREG(path.tag, reg), Word64(q, 1))
      end_of_second == reg + 1 = nreg
  IN IF end_of_loop /\ loop = TagNLOOP(path.tag)
     THEN Pass(<<first>>, i + 1, loop, reg)
     ELSE Pass(<<first, second>>, i + 1, IF end_of_second THEN loop + 1 ELSE loop, IF end_of_second THEN 0 ELSE reg + 1)

RECURSIVE ImageWords(_, _, _)
ImageWords(data, i, num_loops) ==
  IF num_loops = 0 THEN <<>> ELSE <<Word64(data[i + 1], 0), Word64(data[i + 1], 1)>> \o ImageWords(data, i + 1, num_loops - 1)

ImagePass(path, data, size, i) ==
  LET num_loops == Min(size - i, TagNLOOP(path.tag) - path.loop)
  IN Pass(<<Handler("a_d_HWREG_multi", ImageWords(data, i, num_loops))>>, i + num_loops, path.loop + num_loops, path.reg)

DataPass(s, path_index, data, size, i, nreg, optimized) ==
  LET path == s.paths[path_index]
      hand == s.optimized_draw_handler[path_index]
  IN IF path.reg = 0 /\ optimized /\ hand # NoHandler THEN OptimizedPass(path, hand, data, size, i, nreg)
     ELSE IF TagFLG(path.tag) = PACKED THEN PackedPass(path, data, i, nreg)
     ELSE IF TagFLG(path.tag) = REGLIST THEN ReglistPass(path, data, i, nreg)
     ELSE ImagePass(path, data, size, i)

TagPass(s, path_index, tag) ==
  LET s1 == [s EXCEPT !.paths[path_index].tag = tag]
      s2 == IF TagFLG(tag) = PACKED /\ TagPRE(tag) # 0 THEN a_d_PRIM(s1, PRIMBits(<<TagPRIM(tag), 0, 0, 0>>)) ELSE s1
  IN [update_optimized_gif_handler(s2, path_index) EXCEPT !.paths[path_index].loop = 0, !.paths[path_index].reg = 0]

RECURSIVE gif_transfer_loop(_, _, _, _, _, _, _)
gif_transfer_loop(s, path_index, data, size, i, nreg, optimized) ==
  IF i >= size \/ s.fault # "none" THEN s
  ELSE IF s.paths[path_index].loop = TagNLOOP(s.paths[path_index].tag)
  THEN gif_transfer_loop(TagPass(s, path_index, data[i + 1]), path_index, data, size, i + 1, NregOf(data[i + 1]), optimized)
  ELSE LET pass == DataPass(s, path_index, data, size, i, nreg, optimized)
       IN IF pass.i = i
          THEN [s EXCEPT !.fault = "gif_transfer does not return"]
          ELSE gif_transfer_loop(run_handlers([s EXCEPT !.paths[path_index].loop = pass.loop, !.paths[path_index].reg = pass.reg], pass.calls, 1),
                                 path_index, data, size, pass.i, nreg, optimized)

gif_transfer(s, path_index, data, size, optimized) ==
  IF size = 0 THEN s ELSE gif_transfer_loop(s, path_index, data, size, 0, NregOf(s.paths[path_index].tag), optimized)

(***************************************************************************)
(* A series of gif_transfer calls on one path.                             *)
(***************************************************************************)
RECURSIVE gif_transfers(_, _, _, _, _)
gif_transfers(s, path_index, transfers, optimized, k) ==
  IF k > Len(transfers) \/ s.fault # "none" THEN s
  ELSE gif_transfers(gif_transfer(s, path_index, transfers[k].data, transfers[k].size, optimized), path_index, transfers, optimized, k + 1)

(***************************************************************************)
(* GIF streams.  Every transfer is run three ways from the same state:     *)
(* split at a word boundary into two calls (the run the model continues    *)
(* from), as one call, and word by word through the generic dispatcher.    *)
(* `probe` keeps the outcomes of the last two, `feed` the number of words   *)
(* each operation fed.  Direct PRIM and FRAME writes interleave with the   *)
(* transfers, so that a tag and its data can arrive in different calls     *)
(* with a register write between them.                                     *)
(***************************************************************************)
MaxGifWords == 8

MaxGifOps == 3

RECURSIVE WordsFed(_, _)
WordsFed(fed, k) == IF k > Len(fed) THEN 0 ELSE fed[k] + WordsFed(fed, k + 1)

RECURSIVE RegsPart(_, _, _)
RegsPart(regs, k, j) == IF j = 4 THEN 0 ELSE (IF 4 * k + j + 1 <= Len(regs) THEN regs[4 * k + j + 1] ELSE 0) * (16 ^ j) + RegsPart(regs, k, j + 1)

GIFTag(NLOOP, PRE, PRIM, FLG, regs) ==
  <<NLOOP, 0, PRE * 16384 + (PRIM % 2) * 32768, (PRIM \div 2) + FLG * 1024 + (Len(regs) % 16) * 4096,
    RegsPart(regs, 0, 0), RegsPart(regs, 1, 0), RegsPart(regs, 2, 0), RegsPart(regs, 3, 0)>>

STWord(S, T) == <<S, 0, T, 0, 0, 0, 0, 0>>

RGBAWord(c) == <<c, 0, c, 0, c, 0, c, 0>>

XYZWord(X, Y, Z) == <<X, 0, Y, 0, Z, 0, 0, 0>>

ADWord(ADDR, data) == data \o <<ADDR, 0, 0, 0>>

Vertex(k) == <<STWord(k, k), RGBAWord(1), XYZWord((k % 2) * 8, (k % 2) * 8, k)>>

LineStripPacket == <<GIFTag(2, 1, 2, PACKED, STQRGBAXYZ2_Mask)>> \o Vertex(0) \o Vertex(1)

InvalidPrimPacket == <<GIFTag(2, 1, PRIMInvalid, PACKED, STQRGBAXYZ2_Mask)>> \o Vertex(0) \o Vertex(1)

SpritePacket == <<GIFTag(1, 1, 6, PACKED, STXYZFSTRGBAXYZ_Mask), STWord(0, 0), XYZWord(0, 0, 0), STWord(1, 1), RGBAWord(1), XYZWord(8, 8, 1)>>

TagOnly == <<GIFTag(2, 0, 0, PACKED, STQRGBAXYZ2_Mask)>>

DataOnly == Vertex(0) \o Vertex(1)

GenericPacket == <<GIFTag(2, 1, 2, PACKED, <<GIFAddr.XYZ2>>), XYZWord(0, 0, 0), XYZWord(8, 8, 1)>>

ADOnlyPacket == <<GIFTag(2, 0, 0, PACKED, <<GIFAddr.A_D>>), ADWord(RegisterAddr.XYZ2, <<0, 0, 0, 0>>), ADWord(RegisterAddr.XYZ2, <<8, 8, 1, 0>>)>>

RegListPacket == <<GIFTag(3, 0, 0, REGLIST, <<GIFAddr.XYZ2>>), <<0, 0, 0, 0, 8, 8, 1, 0>>, <<0, 0, 2, 0, 0, 0, 0, 0>>>>

ImagePacket == <<GIFTag(1, 0, 0, 2, <<>>), <<1, 0, 0, 0, 2, 0, 0, 0>>>>

GifStreams == {LineStripPacket, InvalidPrimPacket, SpritePacket, TagOnly, DataOnly, GenericPacket, ADOnlyPacket, RegListPacket, ImagePacket}

GifPaths == {0, 1}

PastTheEnd == {ZeroQword, XYZWord(8, 8, 1)}

Repeat(q, n) == [k \in 1..n |-> q]

GifStep(name, arg, words, s, whole, generic) ==
  /\ gs' = s /\ op' = Call(name, arg) /\ probe' = [whole |-> whole, generic |-> generic] /\ feed' = Append(feed, words)
  /\ UNCHANGED ghost

GifReady(words) == gs.fault = "none" /\ Len(feed) < MaxGifOps /\ WordsFed(feed, 1) + words <= MaxGifWords

TransferOf(words, past) == [data |-> words \o past, size |-> Len(words)]

TransfersOf(way, stream, cut, past) ==
  CASE way = "split" -> <<TransferOf(SubSeq(stream, 1, cut), past), TransferOf(SubSeq(stream, cut + 1, Len(stream)), past)>>
    [] way = "whole" -> <<TransferOf(stream, past)>>
    [] way = "generic" -> [k \in 1..Len(stream) |-> TransferOf(<<stream[k]>>, past)]

GifTransfer ==
  \E path \in GifPaths, stream \in GifStreams, past \in PastTheEnd :
    \E cut \in 0..Len(stream) :
      LET run == [way \in {"split", "whole", "generic"} |->
                   gif_transfers(Begin(gs), path, TransfersOf(way, stream, cut, Repeat(past, Len(stream))), way # "generic", 1)]
      IN GifReady(Len(stream)) /\ GifStep("gif_transfer", [path |-> path, data |-> stream, cut |-> cut], Len(stream), run["split"], run["whole"], run["generic"])

GifWritePRIM ==
  \E p \in {1, 2, 6, PRIMInvalid} :
    LET s == a_d_PRIM(Begin(gs), [PRIMZero EXCEPT !.PRIM = p, !.FST = 1])
    IN GifReady(1) /\ GifStep("PRIM", p, 1, s, s, s)

GifWriteFRAME ==
  \E v \in {FrameOf(1, {})} :
    LET s == a_d_FRAME(Begin(gs), 0, v)
    IN GifReady(0) /\ ~Framed /\ GifStep("FRAME_1", v, 0, s, s, s)

InitGif == gs = GSInit /\ op = Call("init", <<>>) /\ probe = [whole |-> GSInit, generic |-> GSInit] /\ feed = <<>> /\ ghost = GhostInit

NextGif == GifTransfer \/ GifWritePRIM \/ GifWriteFRAME

SpecGif == InitGif /\ [][NextGif]_vars

Modelled(s) == s.fault # "register outside the model"

GifWithinModel == Modelled(gs) /\ Modelled(probe.whole) /\ Modelled(probe.generic)

(***************************************************************************)
(* C1.  A transfer split at a 16-byte boundary into two gif_transfer calls *)
(* ends in the same state (path cursors, registers, vertex queue,          *)
(* transfer state, render pass) and makes the same back-end calls as the   *)
(* one call on the whole stream, also when the split falls inside a loop   *)
(* and when the tag selected a whole-loop handler.                         *)
(***************************************************************************)
C1_SplitTransfer == op.c = "gif_transfer" => gs = probe.whole

(***************************************************************************)
(* C2.  A transfer run with the whole-loop handlers ends in the same       *)
(* registers, vertex queue, dirty flags, render pass, path cursors and     *)
(* back-end calls as the same words fed one at a time through the generic  *)
(* dispatcher, whatever was written between the tag and its data and       *)
(* whatever the PRIM type.                                                 *)
(***************************************************************************)
RecognizedStreams == {LineStripPacket, InvalidPrimPacket, SpritePacket, TagOnly, DataOnly, ADOnlyPacket}

C2_OptimizedAsGeneric == op.c = "gif_transfer" /\ op.v.data \in RecognizedStreams => probe.whole = probe.generic

(***************************************************************************)
(* GSInterface::flush(), the submission entry point of the interface.      *)
(***************************************************************************)
GSInterface_flush(s) == Log(mark_submission_timeline(flush_pending_transfer(s, TRUE)), "flush_submit", <<>>)

(***************************************************************************)
(* An untextured scene on a frame 640 pixels wide: FRAME first, SCISSOR    *)
(* and PRIM at most once each before the first vertex, then XYZ2 kicks at  *)
(* subpixel coordinates 100 and 500 and submission flushes.  `feed` keeps  *)
(* the operations made so far.                                             *)
(***************************************************************************)
MaxSceneKicks == 3

MaxSceneFlushes == 2

SceneFrame == [FBP |-> 0, FBW |-> 10, PSM |-> "PSMCT32", FBMSK |-> {}]

SceneScissor == [SCAX0 |-> 0, SCAX1 |-> 639, SCAY0 |-> 0, SCAY1 |-> 639]

SceneScissors == {SceneScissor, [SCAX0 |-> 0, SCAX1 |-> 15, SCAY0 |-> 0, SCAY1 |-> 15]}

SceneSprite == [PRIMZero EXCEPT !.PRIM = 6]

ScenePrims == {SceneSprite, [PRIMZero EXCEPT !.PRIM = 1], [PRIMZero EXCEPT !.PRIM = 1, !.AA1 = 1]}

SceneVertices == {XYZOf(x, y) : x, y \in {100, 500}}

SceneCount(name) == Cardinality({i \in DOMAIN feed : feed[i].c = name})

SceneStep(name, arg, s) == gs' = s /\ op' = Call(name, arg) /\ feed' = Append(feed, Call(name, arg)) /\ UNCHANGED <<probe, ghost>>

SceneFRAME == feed = <<>> /\ SceneStep("FRAME_1", SceneFrame, a_d_FRAME(Begin(gs), 0, SceneFrame))

SceneSCISSOR == \E v \in SceneScissors : feed # <<>> /\ SceneCount("SCISSOR_1") = 0 /\ SceneCount("XYZ2") = 0 /\ SceneStep("SCISSOR_1", v, a_d_SCISSOR(Begin(gs), 0, v))

ScenePRIM == \E v \in ScenePrims : feed # <<>> /\ SceneCount("PRIM") = 0 /\ SceneCount("XYZ2") = 0 /\ SceneStep("PRIM", v, a_d_PRIM(Begin(gs), v))

SceneXYZ2 == \E v \in SceneVertices : feed # <<>> /\ SceneCount("XYZ2") < MaxSceneKicks /\ SceneStep("XYZ2", v, a_d_XYZ2(Begin(gs), v))

SceneFlush == feed # <<>> /\ SceneCount("flush") < MaxSceneFlushes /\ SceneStep("flush", <<>>, GSInterface_flush(Begin(gs)))

NextScene == SceneFRAME \/ SceneSCISSOR \/ ScenePRIM \/ SceneXYZ2 \/ SceneFlush

SpecScene == Init /\ [][NextScene]_vars

(***************************************************************************)
(* C21.  Trivial sprite: FRAME = (FBP 0, FBW 10, PSMCT32), Z test off,     *)
(* PRIM = Sprite with TME = 0 and ABE = 0, zero XY offset, the scissor     *)
(* covering the frame, no super-sampling, XYZ2 kicks at (100,100) and      *)
(* (500,500) in 1/16 pixel units and then a flush.  The flush emits one    *)
(* render pass, with one primitive, one state vector, no texture and no    *)
(* palette update.  As stated the primitive's bounding box is (6,6,31,31); *)
(* by the top-left rule of the code it is (7,7,31,31).                     *)
(***************************************************************************)
TrivialSprite ==
  /\ op.c = "flush" /\ Len(feed) = 6
  /\ {feed[i] : i \in 1..3} = {Call("FRAME_1", SceneFrame), Call("SCISSOR_1", SceneScissor), Call("PRIM", SceneSprite)}
  /\ feed[4] = Call("XYZ2", XYZOf(100, 100)) /\ feed[5] = Call("XYZ2", XYZOf(500, 500))
  /\ Ctx(gs).test.ZTE = 0 /\ gs.sampling_rate_y_log2 = 0

ScenePasses == SelectSeq(gs.calls, LAMBDA c : c.c = "flush_rendering")

OneSpritePass(bb) ==
  /\ Len(ScenePasses) = 1
  /\ ScenePasses[1].v.num_primitives = 1 /\ Len(ScenePasses[1].v.prims) = 1
  /\ ScenePasses[1].v.prims[1].bb = bb
  /\ Len(ScenePasses[1].v.states) = 1
  /\ Len(ScenePasses[1].v.textures) = 0
  /\ ScenePasses[1].v.pending_palette_updates = 0
  /\ "update_palette_cache" \notin CallNames(gs)

C21_TrivialSpriteAsStated == TrivialSprite => OneSpritePass([x |-> 6, y |-> 6, z |-> 31, w |-> 31])

C21_TrivialSprite == TrivialSprite => OneSpritePass([x |-> 7, y |-> 7, z |-> 31, w |-> 31])

C21_Witness == TrivialSprite /\ OneSpritePass([x |-> 7, y |-> 7, z |-> 31, w |-> 31])

(***************************************************************************)
(* Textured draws that sample the frame buffer they render to.  FRAME,     *)
(* TEX0, TEX1 and PRIM are written once in that order, TEX0 once more      *)
(* after the second kick; every XYZ2 kick follows a write of the texture   *)
(* coordinates the PRIM selects (UV with FST = 1, ST and then RGBAQ with   *)
(* FST = 0, so that Q is never 0 when it divides).  `feed` keeps the names *)
(* of the operations made so far.                                          *)
(***************************************************************************)
MaxPixelKicks == 4

PixelCount(name) == Cardinality({i \in DOMAIN feed : feed[i] = name})

PixelLast == IF feed = <<>> THEN "init" ELSE feed[Len(feed)]

PixelStep(name, arg, s) == gs' = s /\ op' = Call(name, arg) /\ feed' = Append(feed, name) /\ UNCHANGED <<probe, ghost>>

PixelTex0s == {[FeedbackTex0 EXCEPT !.TH = 6], [FeedbackTex0 EXCEPT !.TW = 5, !.TH = 6], [FeedbackTex0 EXCEPT !.TH = 6, !.PSM = "PSMT8H"], [FeedbackTex0 EXCEPT !.TH = 6, !.PSM = "PSMT8H", !.CPSM = "PSMCT16"]}

PixelPrims == {[PRIMZero EXCEPT !.PRIM = p, !.TME = 1, !.FST = f] : p \in {0, 1, 3, 6}, f \in {0, 1}}

PixelVertex(k) == XYZOf((k % 2) * 16, (k % 2) * 16)

PixelFRAME == \E v \in {FrameOf(1, {})} : feed = <<>> /\ PixelStep("FRAME_1", v, a_d_FRAME(Begin(gs), 0, v))

PixelTEX0 == \E v \in PixelTex0s :
  /\ \/ PixelLast = "FRAME_1"
     \/ PixelLast = "XYZ2" /\ PixelCount("XYZ2") = 2 /\ PixelCount("TEX0_1") = 1
  /\ PixelStep("TEX0_1", v, a_d_TEX0(Begin(gs), 0, v))

PixelTEX1 == \E mmag \in {0, TEX1_LINEAR} : PixelLast = "TEX0_1" /\ PixelCount("TEX1_1") = 0 /\ PixelStep("TEX1_1", [TEX1Zero EXCEPT !.MMAG = mmag], a_d_TEX1(Begin(gs), 0, [TEX1Zero EXCEPT !.MMAG = mmag]))

PixelPRIM == \E v \in PixelPrims : PixelLast = "TEX1_1" /\ PixelStep("PRIM", v, a_d_PRIM(Begin(gs), v))

PixelCoordinatesDue == PixelCount("PRIM") = 1 /\ PixelLast \in {"PRIM", "XYZ2", "TEX0_1"} /\ PixelCount("XYZ2") < MaxPixelKicks

PixelUV == \E u \in {8, 24, 32} : PixelCoordinatesDue /\ gs.registers.prim.FST = 1 /\ PixelStep("UV", [U |-> u, V |-> u], a_d_UV(Begin(gs), [U |-> u, V |-> u]))

PixelST == \E c \in {1, 2} : PixelCoordinatesDue /\ gs.registers.prim.FST = 0 /\ PixelStep("ST", [S |-> c, T |-> c], a_d_ST(Begin(gs), [S |-> c, T |-> c]))

PixelRGBAQ == \E q \in {64, 128} : PixelLast = "ST" /\ PixelStep("RGBAQ", [RGBAQZero EXCEPT !.Q = q], a_d_RGBAQ(Begin(gs), [RGBAQZero EXCEPT !.Q = q]))

PixelXYZ2 == PixelLast \in {"UV", "RGBAQ"} /\ PixelStep("XYZ2", PixelVertex(PixelCount("XYZ2")), a_d_XYZ2(Begin(gs), PixelVertex(PixelCount("XYZ2"))))

NextPixel == PixelFRAME \/ PixelTEX0 \/ PixelTEX1 \/ PixelPRIM \/ PixelUV \/ PixelST \/ PixelRGBAQ \/ PixelXYZ2

SpecPixel == Init /\ [][NextPixel]_vars

(***************************************************************************)
(* C22.  A draw in a color-feedback configuration is classified Pixel only *)
(* if it is a triangle or sprite, magnifies with NEAREST, has no           *)
(* per-vertex Q variation and every vertex has UV - XY within              *)
(* [0, 2^SUBPIXEL_BITS) on both axes; points and lines are None, every     *)
(* other case Sliced.  A Pixel draw stores a texture index with the        *)
(* sentinel bit, in a pass that has has_color_feedback set and whose       *)
(* feedback PSM (and CPSM for palette formats) is the draw's, and creates  *)
(* no cached texture.  As stated, Q must not vary for any Pixel draw; the  *)
(* code examines Q only for triangles drawn with FST = 0.                  *)
(***************************************************************************)
Appends(s) == {s.calls[i].v : i \in {j \in DOMAIN s.calls : s.calls[j].c = "append"}}

DrawKind(a) == IF Len(a.attr) = 3 THEN "triangle" ELSE IF a.quad THEN "sprite" ELSE IF Len(a.attr) = 2 THEN "line" ELSE "point"

QVaries(a) == Cardinality({a.attr[i].q : i \in DOMAIN a.attr}) > 1

DrawUV(s, at) ==
  IF s.registers.prim.FST = 1 THEN <<at.uv.U, at.uv.V>>
  ELSE <<(Pow2(Ctx(s).tex0.TW) * 16 * at.st.S) \div at.q, (Pow2(Ctx(s).tex0.TH) * 16 * at.st.T) \div at.q>>

DeltasInRange(s, a) ==
  \A i \in DOMAIN a.attr :
    /\ DrawUV(s, a.attr[i])[1] - a.pos[i].x \in 0..(Pow2(SUBPIXEL_BITS) - 1)
    /\ DrawUV(s, a.attr[i])[2] - a.pos[i].y \in 0..(Pow2(SUBPIXEL_BITS) - 1)

FeedbackConfiguration(s) ==
  /\ s.registers.prim.TME = 1
  /\ Ctx(s).tex0.TBP0 = Ctx(s).frame.FBP * BLOCKS_PER_PAGE /\ Ctx(s).tex0.TBW = Ctx(s).frame.FBW
  /\ swizzle_compat_key(Ctx(s).tex0.PSM) = swizzle_compat_key(Ctx(s).frame.PSM)
  /\ Ctx(s).frame.FBW * BUFFER_WIDTH_SCALE <= Pow2(Ctx(s).tex0.TW)
  /\ Ctx(s).scissor.SCAY1 < Pow2(Ctx(s).tex0.TH)

PixelMarks(s, a) ==
  a.feedback_mode = "Pixel" =>
    /\ a.tex.feedback /\ a.has_color_feedback
    /\ a.feedback_psm = Ctx(s).tex0.PSM
    /\ is_palette_format(Ctx(s).tex0.PSM) => a.feedback_cpsm = Ctx(s).tex0.CPSM
    /\ "create_cached_texture" \notin CallNames(s)

SamePassKeepsFormat ==
  (gs.render_pass.has_color_feedback /\ LastFlushIndex(gs', "FB") = 0) =>
    /\ gs'.render_pass.has_color_feedback
    /\ gs'.render_pass.feedback_psm = gs.render_pass.feedback_psm
    /\ gs'.render_pass.feedback_cpsm = gs.render_pass.feedback_cpsm

Classified(s, a, pixel) ==
  a.feedback_mode = (IF ~FeedbackConfiguration(s) \/ DrawKind(a) \in {"point", "line"} THEN "None" ELSE IF pixel THEN "Pixel" ELSE "Sliced")

C22_QNeverVaries ==
  [][op'.c = "XYZ2" => \A a \in Appends(gs') :
       Classified(gs', a, Ctx(gs').tex1.MMAG = 0 /\ ~QVaries(a) /\ DeltasInRange(gs', a))]_vars

C22_FeedbackClassification ==
  [][op'.c = "XYZ2" =>
       /\ \A a \in Appends(gs') :
            /\ Classified(gs', a, Ctx(gs').tex1.MMAG = 0 /\ ~(DrawKind(a) = "triangle" /\ gs'.registers.prim.FST = 0 /\ QVaries(a)) /\ DeltasInRange(gs', a))
            /\ PixelMarks(gs', a)
       /\ SamePassKeepsFormat]_vars

C22_Witness ==
  /\ op.c = "XYZ2" /\ gs.render_pass.primitive_count = 2
  /\ \E a \in Appends(gs) : a.feedback_mode = "Pixel" /\ DrawKind(a) = "sprite" /\ QVaries(a) /\ a.tex.feedback /\ a.has_color_feedback /\ a.feedback_psm = "PSMT8H"
  /\ gs.render_pass.has_color_feedback /\ "create_cached_texture" \notin CallNames(gs)

(***************************************************************************)
(* Palette loads: TEX0 and TEX2 of both contexts are written with every    *)
(* CLD value and two palette base pointers, between writes of other        *)
(* registers, MaxClutWrites writes in all.  Nothing is drawn, so no render *)
(* pass is emitted.                                                        *)
(***************************************************************************)
ClutTex0s == {[TEX0Zero EXCEPT !.PSM = "PSMT8", !.CBP = cbp * BLOCKS_PER_PAGE, !.CLD = cld] : cbp \in {2, 3}, cld \in 0..7}

MaxClutWrites == 3

ClutStep(name, arg, s) == ghost.palette_uploads < MaxClutWrites /\ gs' = s /\ op' = Call(name, arg) /\ ghost' = [ghost EXCEPT !.palette_uploads = @ + 1] /\ UNCHANGED <<probe, feed>>

ClutTEX0 == \E CTX \in 0..1, v \in ClutTex0s : ClutStep("TEX0", [CTX |-> CTX, v |-> v], a_d_TEX0(Begin(gs), CTX, v))

ClutTEX2 == \E CTX \in 0..1, v \in ClutTex0s : ClutStep("TEX2", [CTX |-> CTX, v |-> v], a_d_TEX2(Begin(gs), CTX, [v EXCEPT !.TBP0 = BLOCKS_PER_PAGE]))

ClutTEXCLUT == \E v \in {[TEXCLUTZero EXCEPT !.CBW = 1]} : ClutStep("TEXCLUT", v, a_d_TEXCLUT(Begin(gs), v))

ClutTEX1 == \E v \in {[TEX1Zero EXCEPT !.MMAG = TEX1_LINEAR]} : ClutStep("TEX1", v, a_d_TEX1(Begin(gs), 0, v))

ClutPRIM == \E v \in {SpriteTex} : ClutStep("PRIM", v, a_d_PRIM(Begin(gs), v))

ClutFRAME == \E v \in {FrameOf(1, {})} : ClutStep("FRAME", v, a_d_FRAME(Begin(gs), 0, v))

NextClut == ClutTEX0 \/ ClutTEX2 \/ ClutTEXCLUT \/ ClutTEX1 \/ ClutPRIM \/ ClutFRAME

SpecClut == Init /\ [][NextClut]_vars

(***************************************************************************)
(* C23.  On a TEX0 write CLD decides the palette load: 0, 6 and 7 never    *)
(* load; 1 always loads; 2/3 always load and set cached CBP[0]/CBP[1] to   *)
(* the written CBP; 4/5 load exactly when cached CBP[0]/CBP[1] differs     *)
(* from the written CBP and leave it equal to the written CBP, so the same *)
(* write repeated at once does not load.  As stated no other register      *)
(* write changes the cached CBP; a TEX2 write does, because it rewrites    *)
(* TEX0 and runs the same decision.                                        *)
(***************************************************************************)
ClutLoaded(s) == "register_cached_clut_clobber" \in CallNames(s)

CldDecides ==
  LET w == gs'.registers.ctx[op'.v.CTX].tex0
      i == (w.CLD % 2) + 1
  IN /\ w.CLD = op'.v.v.CLD /\ w.CBP = op'.v.v.CBP
     /\ ClutLoaded(gs') <=> (w.CLD \in 1..3 \/ (w.CLD \in 4..5 /\ gs.registers.cached_cbp[i] # w.CBP))
     /\ gs'.registers.cached_cbp = IF w.CLD \in 2..5 THEN [gs.registers.cached_cbp EXCEPT ![i] = w.CBP] ELSE gs.registers.cached_cbp

C23_OnlyTEX0Caches ==
  [][/\ op'.c = "TEX0" => CldDecides
     /\ op'.c # "TEX0" => gs'.registers.cached_cbp = gs.registers.cached_cbp]_vars

C23_CldDecidesLoad ==
  [][/\ op'.c \in {"TEX0", "TEX2"} => CldDecides
     /\ op'.c \notin {"TEX0", "TEX2"} => (gs'.registers.cached_cbp = gs.registers.cached_cbp /\ ~ClutLoaded(gs'))
     /\ (op.c \in {"TEX0", "TEX2"} /\ op' = op /\ op.v.v.CLD \in 4..5) => ~ClutLoaded(gs')]_vars

C23_Witness ==
  /\ op.c = "TEX0" /\ op.v.v.CLD = 5 /\ op.v.v.CBP = 3 * BLOCKS_PER_PAGE
  /\ ~ClutLoaded(gs) /\ gs.registers.cached_cbp = <<2 * BLOCKS_PER_PAGE, 3 * BLOCKS_PER_PAGE>>

(***************************************************************************)
(* Host mapping of VRAM for writing.  GSInterface::map_vram_write and      *)
(* end_vram_write take a byte range; the page rectangle is the range of    *)
(* pages from offset / PageSize to (offset + size - 1) / PageSize.  The    *)
(* tracker answers UINT64_MAX from get_host_write_timeline while any work  *)
(* of the GPU on the pages, reading or writing, is pending.                *)
(***************************************************************************)
PageSize == 8192

HostPageRect(offset, size) == [PageRectZero EXCEPT !.base_page = offset \div PageSize, !.page_width = ((offset + size - 1) \div PageSize) - (offset \div PageSize) + 1, !.page_height = 1]

HostWritePending(s, rect) ==
  \/ HostAccessPending(s, rect)
  \/ page_has_flag(s, rect, "FB_READ")
  \/ get_block_state(s, rect).copy_read_block_mask # {}
  \/ get_block_state(s, rect).cached_read_block_mask # {}

get_host_write_timeline(s, rect) == IF HostWritePending(s, rect) THEN "UINT64_MAX" ELSE "reached"

commit_host_write(s, rect) == Log(s, "commit_host_write", rect)

map_vram_write_first_page(s, offset, size) ==
  LET page_rect == HostPageRect(offset, 1)
      Submit(t) == IF get_host_write_timeline(t, page_rect) = "UINT64_MAX" THEN Log(mark_submission_timeline(t), "flush_submit", <<>>) ELSE t
  IN IF size = 0 THEN s
     ELSE Log(Log(Submit(Log(s, "get_host_write_timeline", page_rect)), "wait_timeline", <<>>), "begin_host_vram_access", <<>>)

map_vram_write(s, offset, size) ==
  LET page_rect == HostPageRect(offset, size)
      Submit(t) == IF get_host_write_timeline(t, page_rect) = "UINT64_MAX" THEN Log(mark_submission_timeline(t), "flush_submit", <<>>) ELSE t
  IN IF size = 0 THEN s
     ELSE Log(Log(Submit(Log(s, "get_host_write_timeline", page_rect)), "wait_timeline", <<>>), "begin_host_vram_access", <<>>)

end_vram_write(s, offset, size) ==
  IF size = 0 THEN s
  ELSE commit_host_write(Log(s, "end_host_write_vram_access", <<>>), HostPageRect(offset, size))

(***************************************************************************)
(* The host maps byte ranges of the first pages while points are drawn     *)
(* to a frame buffer on page 1 or 2: ranges inside one page, ranges that   *)
(* cross a page boundary, and empty ranges.                                *)
(***************************************************************************)
HostOffsets == {0, PageSize - 1, PageSize, 2 * PageSize + 16}

HostSizes == {0, 1, 2, PageSize + 1}

HostRange(offset, size) == [offset |-> offset, size |-> size]

HostFRAME == \E v \in {FrameOf(1, {}), FrameOf(2, {})} : Do("FRAME_1", v, a_d_FRAME(Begin(gs), 0, v))

HostPRIM == \E v \in {PointPrim, SpritePrim} : Do("PRIM", v, a_d_PRIM(Begin(gs), v))

HostXYZ2 == \E v \in {XYZOf(8, 8)} : Live /\ Do("XYZ2", v, a_d_XYZ2(Begin(gs), v))

HostMapWrite == \E offset \in HostOffsets, size \in HostSizes : Do("map_vram_write", HostRange(offset, size), map_vram_write(Begin(gs), offset, size))

HostEndWrite == \E offset \in HostOffsets, size \in HostSizes : Do("end_vram_write", HostRange(offset, size), end_vram_write(Begin(gs), offset, size))

HostMapRead == \E p \in {1, 2} : Do("map_vram_read", p, map_vram_read(Begin(gs), p, p))

HostFlush == Do("flush", <<>>, GSInterface_flush(Begin(gs)))

NextHost == HostFRAME \/ HostPRIM \/ HostXYZ2 \/ HostMapWrite \/ HostEndWrite \/ HostMapRead \/ HostFlush

SpecHost == Init /\ [][NextHost]_vars

OverlapPages(offset, size) == {p \in Pages : p * PageSize < offset + size /\ (p + 1) * PageSize > offset}

CallSeq(s) == [i \in DOMAIN s.calls |-> s.calls[i].c]

CallCount(s, name) == Cardinality({i \in DOMAIN s.calls : s.calls[i].c = name})

TimelineReached(s, query, access) ==
  /\ CallCount(s, query) = 1 /\ CallCount(s, "wait_timeline") = 1 /\ CallCount(s, access) = 1
  /\ IndexOf(s, query) < IndexOf(s, "wait_timeline")
  /\ IndexOf(s, "wait_timeline") + 1 = IndexOf(s, access)
  /\ IndexOf(s, access) = Len(s.calls)

(***************************************************************************)
(* C24 as stated: every map_vram_write of a non-empty range calls the      *)
(* tracker's acquire_host_write on the pages of the range before the       *)
(* pointer is returned, and end_vram_write calls commit_host_write on the  *)
(* same pages; an empty range calls nothing.                               *)
(***************************************************************************)
C24_AcquireHostWrite ==
  [][/\ (op'.c = "map_vram_write" /\ op'.v.size > 0
          => /\ "acquire_host_write" \in CallNames(gs')
             /\ IndexOf(gs', "acquire_host_write") < IndexOf(gs', "begin_host_vram_access"))
     /\ (op'.c = "end_vram_write" /\ op'.v.size > 0 => "commit_host_write" \in CallNames(gs'))
     /\ (op'.c \in {"map_vram_write", "end_vram_write"} /\ op'.v.size = 0 => gs' = Begin(gs))]_vars

(***************************************************************************)
(* C24, amended: every map_vram_write of a non-empty range asks the        *)
(* tracker for the host-write timeline (get_host_write_timeline) of        *)
(* exactly the pages overlapping [offset, offset + size), submits a new    *)
(* timeline when work on those pages is pending, waits, and only then      *)
(* takes the pointer from the back-end; it never calls                     *)
(* acquire_host_write.  end_vram_write of a non-empty range ends the host  *)
(* access and calls commit_host_write on exactly the pages of its own      *)
(* range.  With size = 0 neither makes any call or changes any state.      *)
(***************************************************************************)
C24_HostWriteProtocol ==
  [][/\ (op'.c = "map_vram_write" /\ op'.v.size > 0
          => /\ TimelineReached(gs', "get_host_write_timeline", "begin_host_vram_access")
             /\ IndexOf(gs', "get_host_write_timeline") = 1
             /\ RectPages(gs'.calls[1].v) = OverlapPages(op'.v.offset, op'.v.size)
             /\ "acquire_host_write" \notin CallNames(gs')
             /\ (HostWritePending(gs, gs'.calls[1].v) <=> "flush_submit" \in CallNames(gs'))
             /\ ("flush_submit" \in CallNames(gs') => IndexOf(gs', "flush_submit") + 1 = IndexOf(gs', "wait_timeline")))
     /\ (op'.c = "end_vram_write" /\ op'.v.size > 0
          => /\ CallSeq(gs') = <<"end_host_write_vram_access", "commit_host_write">>
             /\ RectPages(gs'.calls[2].v) = OverlapPages(op'.v.offset, op'.v.size))
     /\ (op'.c \in {"map_vram_write", "end_vram_write"} /\ op'.v.size = 0 => gs' = Begin(gs))]_vars

C24_Witness ==
  /\ op.c = "map_vram_write" /\ op.v = HostRange(PageSize - 1, 2)
  /\ "flush_rendering" \in CallNames(gs) /\ "flush_submit" \in CallNames(gs)
  /\ RectPages(gs.calls[1].v) = {0, 1}

(***************************************************************************)
(* The part of C25 that the interface decides: map_vram_read takes the     *)
(* pointer from the back-end as its last call, directly after              *)
(* wait_timeline, and when work that writes the page is pending it marks   *)
(* a new submission (a flush of every phase that writes VRAM, read-back    *)
(* included) and submits it before the wait.  Which bytes the pointer      *)
(* then shows is decided by the back-end and by the tracker's page         *)
(* callbacks.                                                              *)
(***************************************************************************)
ReadWaitsForTimeline ==
  [][op'.c = "map_vram_read"
       => /\ CallCount(gs', "wait_timeline") = 1 /\ CallCount(gs', "begin_host_vram_access") = 1
          /\ IndexOf(gs', "wait_timeline") + 1 = IndexOf(gs', "begin_host_vram_access")
          /\ IndexOf(gs', "begin_host_vram_access") = Len(gs'.calls)
          /\ (HostAccessPending(gs, HostPageRect(op'.v * PageSize, 1))
                => /\ HasFlush(gs', "WRITE_BACK", "SubmissionFlush") /\ HasFlush(gs', "FB", "SubmissionFlush")
                   /\ LastFlushIndex(gs', "WRITE_BACK") < IndexOf(gs', "flush_submit")
                   /\ IndexOf(gs', "flush_submit") + 1 = IndexOf(gs', "wait_timeline")
                   /\ ~HostAccessPending(gs', HostPageRect(op'.v * PageSize, 1)))
          /\ (~HostAccessPending(gs, HostPageRect(op'.v * PageSize, 1)) => "flush_submit" \notin CallNames(gs'))]_vars

ReadAfterDraw == op.c = "map_vram_read" /\ "flush_rendering" \in CallNames(gs) /\ "flush_submit" \in CallNames(gs)

(***************************************************************************)
(* compute_fb_rect as a function of the bounding box, for a render pass    *)
(* whose frame (FBP, FBW, PSM) and page dimensions are those that          *)
(* check_frame_buffer_state installs.  A box is cut by a vertical line     *)
(* and each side by a horizontal line of its own, which gives partitions   *)
(* of one to four sub-rectangles, grids and T-shapes alike.  The pages of  *)
(* a page rectangle are counted without wrapping.                          *)
(***************************************************************************)
RectFrames == {[FBP |-> fbp, FBW |-> fbw, PSM |-> psm, FBMSK |-> {}] : fbp \in {0, 3}, fbw \in {0, 1, 10}, psm \in {"PSMCT32", "PSMCT24", "PSMCT16"}}

RectXs == {0, 63, 64, 130}

RectYs == {0, 31, 32, 64, 70}

RectBBs == {bb \in [x : RectXs, y : RectYs, z : RectXs, w : RectYs] : bb.x <= bb.z /\ bb.y <= bb.w}

CutX(bb, c) == IF c < bb.x THEN {bb} ELSE {[bb EXCEPT !.z = c], [bb EXCEPT !.x = c + 1]}

CutY(bb, c) == IF c < bb.y THEN {bb} ELSE {[bb EXCEPT !.w = c], [bb EXCEPT !.y = c + 1]}

CutsX(bb) == {bb.x - 1} \cup {c \in {0, 62, 63, 64} : bb.x <= c /\ c < bb.z}

CutsY(bb) == {bb.y - 1} \cup {c \in {30, 31, 63, 64} : bb.y <= c /\ c < bb.w}

Partition(bb, cx, cy_left, cy_right) ==
  IF cx < bb.x THEN CutY(bb, cy_left)
  ELSE CutY([bb EXCEPT !.z = cx], cy_left) \cup CutY([bb EXCEPT !.x = cx + 1], cy_right)

RectPageSet(rect) == {rect.base_page + y * rect.page_stride + x : x \in 0..(rect.page_width - 1), y \in 0..(rect.page_height - 1)}

InitRect ==
  /\ \E f \in RectFrames :
       gs = [GSInit EXCEPT !.render_pass.frame = f, !.render_pass.fb_page_width_log2 = PageWidthLog2(f.PSM), !.render_pass.fb_page_height_log2 = PageHeightLog2(f.PSM)]
  /\ op = Call("init", <<>>) /\ probe = <<>> /\ feed = <<>> /\ ghost = GhostInit

RectCompute ==
  \E bb \in RectBBs : \E cx \in CutsX(bb), cy_left \in CutsY(bb), cy_right \in CutsY(bb) :
     /\ op.c = "init"
     /\ cx < bb.x => cy_right < bb.y
     /\ op' = Call("compute_fb_rect", bb)
     /\ probe' = [whole |-> compute_fb_rect(gs, bb), parts |-> {[bb |-> sub, rect |-> compute_fb_rect(gs, sub)] : sub \in Partition(bb, cx, cy_left, cy_right)}]
     /\ UNCHANGED <<gs, feed, ghost>>

NextRect == RectCompute

SpecRect == InitRect /\ [][NextRect]_vars

BBPixels(bb) == {<<x, y>> : x \in {bb.x, bb.z}, y \in {bb.y, bb.w}}

(***************************************************************************)
(* C26: for every non-degenerate bounding box and every partition of it    *)
(* into sub-rectangles, the pages of compute_fb_rect of the box are the    *)
(* union of the pages of compute_fb_rect of the sub-rectangles, for every  *)
(* FBP, FBW and frame PSM; every piece carries the stride and the write    *)
(* mask of the whole.                                                      *)
(***************************************************************************)
C26_FbRectUnion ==
  op.c = "compute_fb_rect"
    => /\ RectPageSet(probe.whole) = UNION {RectPageSet(p.rect) : p \in probe.parts}
       /\ \A p \in probe.parts : p.rect.page_stride = probe.whole.page_stride /\ p.rect.write_mask = probe.whole.write_mask /\ p.rect.block_mask = probe.whole.block_mask

C26_Witness ==
  /\ op.c = "compute_fb_rect" /\ op.v = [x |-> 63, y |-> 31, z |-> 130, w |-> 70]
  /\ gs.render_pass.frame.FBW = 10 /\ gs.render_pass.frame.FBP = 3 /\ gs.render_pass.frame.PSM = "PSMCT32"
  /\ Cardinality(probe.parts) = 4
  /\ \E p \in probe.parts : p.bb = [x |-> 63, y |-> 31, z |-> 63, w |-> 31] /\ RectPageSet(p.rect) = {3}
  /\ RectPageSet(probe.whole) = {3, 4, 5, 13, 14, 15, 23, 24, 25}

(***************************************************************************)
(* GIF transfers on two paths, in pieces.  A transfer carries whole        *)
(* packets or a piece of one: the head of a packet (its tag and the first  *)
(* data words) or its tail.  `feed` keeps the transfers made so far, and   *)
(* `probe` keeps, for every path, the interface that received the          *)
(* transfers of that path alone.  The words after the end of a transfer    *)
(* are whatever the memory holds there.                                    *)
(***************************************************************************)
MaxPathOps == 3

LineHead == SubSeq(LineStripPacket, 1, 3)

LineTail == SubSeq(LineStripPacket, 4, 7)

PrimTag == <<GIFTag(0, 1, 6, PACKED, <<GIFAddr.NOP>>)>>

SpriteHead == <<GIFTag(1, 0, 0, PACKED, STXYZFSTRGBAXYZ_Mask), STWord(0, 0), XYZWord(0, 0, 0), STWord(1, 1), RGBAWord(1)>>

SpriteTail == <<XYZWord(8, 8, 1)>>

PathChunks == {LineStripPacket, LineHead, LineTail, TagOnly, Vertex(0), GenericPacket, RegListPacket, ImagePacket, PrimTag, SpriteHead, SpriteTail}

PathTransferOf(path, chunk, past) == [path |-> path, data |-> chunk, past |-> past]

PathRun(s, t) == gif_transfer(Begin(s), t.path, t.data \o Repeat(t.past, Len(t.data)), Len(t.data), TRUE)

PathTransfer ==
  \E path \in GifPaths, chunk \in PathChunks, past \in PastTheEnd :
    /\ gs.fault = "none" /\ Len(feed) < MaxPathOps
    /\ gs' = PathRun(gs, PathTransferOf(path, chunk, past))
    /\ probe' = [probe EXCEPT ![path] = PathRun(probe[path], PathTransferOf(path, chunk, past))]
    /\ op' = Call("gif_transfer", PathTransferOf(path, chunk, past))
    /\ feed' = Append(feed, PathTransferOf(path, chunk, past))
    /\ UNCHANGED ghost

InitPaths == gs = GSInit /\ op = Call("init", <<>>) /\ probe = [p \in GifPaths |-> GSInit] /\ feed = <<>> /\ ghost = GhostInit

NextPaths == PathTransfer

SpecPaths == InitPaths /\ [][NextPaths]_vars

PathsWithinModel == Modelled(gs) /\ \A p \in GifPaths : Modelled(probe[p])

(***************************************************************************)
(* The qword stream a path has been given, and the cursor the framing      *)
(* rule puts after it: a packet is its tag and NLOOP x NREG' qwords        *)
(* (PACKED), ceil(NLOOP x NREG' / 2) qwords (REGLIST) or NLOOP qwords      *)
(* (IMAGE); the first qword of the stream and the qword after every        *)
(* complete packet is a tag.                                               *)
(***************************************************************************)
RECURSIVE PathStream(_, _, _)
PathStream(fed, path, k) ==
  IF k > Len(fed) THEN <<>>
  ELSE (IF fed[k].path = path THEN fed[k].data ELSE <<>>) \o PathStream(fed, path, k + 1)

PacketQwords(tag) ==
  CASE TagFLG(tag) = PACKED -> TagNLOOP(tag) * NregOf(tag)
    [] TagFLG(tag) = REGLIST -> (TagNLOOP(tag) * NregOf(tag) + 1) \div 2
    [] OTHER -> TagNLOOP(tag)

RECURSIVE LastTag(_, _)
LastTag(stream, t) == IF t + PacketQwords(stream[t]) + 1 <= Len(stream) THEN LastTag(stream, t + PacketQwords(stream[t]) + 1) ELSE t

SlotsTaken(tag, qwords) ==
  CASE TagFLG(tag) = PACKED -> qwords
    [] TagFLG(tag) = REGLIST -> Min(2 * qwords, TagNLOOP(tag) * NregOf(tag))
    [] OTHER -> qwords * NregOf(tag)

FramedCursor(stream) ==
  IF stream = <<>> THEN GIFPathInit
  ELSE [tag |-> stream[LastTag(stream, 1)],
        loop |-> SlotsTaken(stream[LastTag(stream, 1)], Len(stream) - LastTag(stream, 1)) \div NregOf(stream[LastTag(stream, 1)]),
        reg |-> IF TagFLG(stream[LastTag(stream, 1)]) \in {PACKED, REGLIST}
                THEN SlotsTaken(stream[LastTag(stream, 1)], Len(stream) - LastTag(stream, 1)) % NregOf(stream[LastTag(stream, 1)])
                ELSE 0]

CursorInRange(path) == 0 <= path.loop /\ path.loop <= TagNLOOP(path.tag) /\ 0 <= path.reg /\ path.reg < NregOf(path.tag)

(***************************************************************************)
(* C27 as stated: every transfer returns, and after it every path's        *)
(* cursor is in range (0 <= loop <= NLOOP, 0 <= reg < NREG', with 16 for   *)
(* NREG = 0) and stands where the framing rule puts it after the qwords    *)
(* the path has been given: a qword is a tag exactly when the packet       *)
(* before it is complete, and a PACKED packet takes NLOOP x NREG' qwords,  *)
(* a REGLIST packet ceil(NLOOP x NREG' / 2) and an IMAGE packet NLOOP.     *)
(***************************************************************************)
C27_PathCursors ==
  /\ gs.fault = "none"
  /\ \A p \in GifPaths : CursorInRange(gs.paths[p]) /\ gs.paths[p] = FramedCursor(PathStream(feed, p, 1))

(***************************************************************************)
(* What holds of the cursors in every state: they stay in range, and they  *)
(* stand where the framing rule puts them as long as every transfer on     *)
(* the path so far carried whole packets.                                  *)
(***************************************************************************)
WholePackets(fed, path) == \A k \in DOMAIN fed : fed[k].path = path => fed[k].data \in {LineStripPacket, GenericPacket, RegListPacket, ImagePacket, PrimTag}

CursorsOfWholePackets ==
  \A p \in GifPaths :
     /\ CursorInRange(gs.paths[p])
     /\ WholePackets(feed, p) => gs.paths[p] = FramedCursor(PathStream(feed, p, 1))

(***************************************************************************)
(* C30 as stated: a transfer on one path leaves the tag, loop and reg of   *)
(* every other path as they were, and after every interleaving of          *)
(* transfers every path has the tag, loop and reg it has when it is given  *)
(* its own transfers alone.                                                *)
(***************************************************************************)
C30_PathsIndependent ==
  [][op'.c = "gif_transfer"
       => /\ \A p \in GifPaths \ {op'.v.path} : gs'.paths[p] = gs.paths[p]
          /\ (gs'.fault = "none" <=> \A p \in GifPaths : probe'[p].fault = "none")
          /\ (gs'.fault = "none" => \A p \in GifPaths : gs'.paths[p] = probe'[p].paths[p])]_vars

OtherPathsUntouched == [][op'.c = "gif_transfer" => \A p \in 0..3 : p # op'.v.path => gs'.paths[p] = gs.paths[p]]_vars

(***************************************************************************)
(* Register writes between textured draws into a frame buffer that is also *)
(* the texture.  FRAME is page 1, one buffer unit wide; TEX0 starts on     *)
(* page 1 and is 64 x 8 texels, so the last test of                        *)
(* update_color_feedback_state, SCAY1 >= height, separates the two SCISSOR *)
(* values.  The second TEX0 is 128 x 128 texels from page 0, TEST switches *)
(* the depth test and ZBUF keeps its initial value.                        *)
(***************************************************************************)
DirtyTex0 == [FeedbackTex0 EXCEPT !.TH = 3]

DirtyTex0s == {DirtyTex0, [DirtyTex0 EXCEPT !.TBP0 = 0, !.TW = 7, !.TH = 7]}

DirtyScissors == {SCISSORZero, [SCISSORZero EXCEPT !.SCAX1 = 15, !.SCAY1 = 15]}

DirtyTests == {TESTZero, [TESTZero EXCEPT !.ZTE = 1, !.ZTST = 2]}

DirtyFRAME == \E v \in {FrameOf(1, {})} : Do("FRAME_1", v, a_d_FRAME(Begin(gs), 0, v))

DirtyPRIM == \E v \in {SpriteTex} : Do("PRIM", v, a_d_PRIM(Begin(gs), v))

DirtyTEX0 == \E v \in DirtyTex0s : Do("TEX0_1", v, a_d_TEX0(Begin(gs), 0, v))

DirtySCISSOR == \E v \in DirtyScissors : Do("SCISSOR_1", v, a_d_SCISSOR(Begin(gs), 0, v))

DirtyTEST == \E v \in DirtyTests : Do("TEST_1", v, a_d_TEST(Begin(gs), 0, v))

DirtyXYZ2 == \E v \in {XYZOf(0, 0), XYZOf(16, 16)} : Live /\ Do("XYZ2", v, a_d_XYZ2(Begin(gs), v))

NextDirty == DirtyFRAME \/ DirtyPRIM \/ DirtyTEX0 \/ DirtySCISSOR \/ DirtyTEST \/ DirtyXYZ2

SpecDirty == Init /\ [][NextDirty]_vars

AllDirty(s) == [s EXCEPT !.state_tracker.dirty_flags = STATE_DIRTY_ALL_BITS]

AppendLog(s) == SelectSeq(s.calls, LAMBDA e : e.c = "append")

FeedbackUsed(s) ==
  [appended |-> Len(AppendLog(s)),
   feedback |-> [i \in DOMAIN AppendLog(s) |-> <<AppendLog(s)[i].v.is_color_feedback, AppendLog(s)[i].v.feedback_mode>>],
   potential |-> IF AppendLog(s) = <<>> THEN <<>> ELSE <<s.render_pass.is_potential_color_feedback, s.render_pass.is_potential_depth_feedback>>]

RecomputedKick(s, v) == a_d_XYZ2(AllDirty(Begin(s)), v)

(***************************************************************************)
(* C28: after any sequence of register writes, the derived values a draw   *)
(* kick uses (whether it draws at all, and the feedback classification of  *)
(* the primitive it appends) are the ones the same kick computes when      *)
(* every derived computation is forced to run from the current registers.  *)
(***************************************************************************)
C28_DirtyFlagDiscipline == [][op'.c = "XYZ2" => FeedbackUsed(gs') = FeedbackUsed(RecomputedKick(gs, op'.v))]_vars

StaleFeedbackKick == op.c = "XYZ2" /\ AppendLog(gs) # <<>> /\ AppendLog(gs)[1].v.is_color_feedback /\ Ctx(gs).scissor.SCAY1 >= Pow2(Ctx(gs).tex0.TH) /\ Ctx(gs).tex0 = DirtyTex0

(***************************************************************************)
(* What the dirty bits do keep current in these runs: whether the kick     *)
(* draws at all, i.e. the degenerate verdict.                              *)
(***************************************************************************)
KickVerdictRecomputed == [][op'.c = "XYZ2" => Len(AppendLog(gs')) = Len(AppendLog(RecomputedKick(gs, op'.v)))]_vars

(***************************************************************************)
(* The palette memoization ring over passes.  Three 4-bit palettes at      *)
(* three CBP on page 3 share one CSA mask, so a look-up walks the whole    *)
(* ring; FRAME is page 1 or page 3, and a draw into page 3 makes the next  *)
(* CLUT load a texture hazard.  probe keeps what the ring cannot show      *)
(* after the handler returned: pass, the uploads update_palette_cache      *)
(* returned since the last callback with the FB flag, and window, the ring *)
(* at the look-up and after the sliding window of the same TEX0 write.     *)
(***************************************************************************)
MaxRingWrites == 3

RingTex0s == {[Tex0Of(2 * BLOCKS_PER_PAGE, "PSMT4", 0) EXCEPT !.CBP = 3 * BLOCKS_PER_PAGE + b] : b \in 0..2}

NoWindow == [r |-> "none", before |-> <<>>, after |-> <<>>, entry |-> <<>>, instance |-> 0]

RECURSIVE PassUploads(_, _)
PassUploads(pass, calls) ==
  IF calls = <<>> THEN pass
  ELSE PassUploads(IF Head(calls).c = "flush" /\ "FB" \in Head(calls).v.flags THEN {}
                   ELSE IF Head(calls).c = "update_palette_cache" THEN pass \cup {Head(calls).v}
                   ELSE pass, Tail(calls))

WindowOf(ring, d) ==
  [r |-> d.r,
   before |-> IF "flush_cache_upload" \in CallNames(d.s) THEN <<>> ELSE ring,
   after |-> d.s.render_pass.memoized_palettes,
   entry |-> [csa_mask |-> ClutPage(d.s, 0).csa_mask, upload |-> PaletteDesc(d.s, 0), clut_instance |-> d.s.renderer.clut_instance],
   instance |-> d.s.render_pass.clut_instance]

RingWindow(s, payload) == WindowOf(s.render_pass.memoized_palettes, MemoizeUpload(WriteTEX0(s, 0, payload), 0))

RingStep(name, arg, s, window) == gs' = s /\ op' = Call(name, arg) /\ probe' = [pass |-> PassUploads(probe.pass, s.calls), window |-> window, writes |-> probe.writes + (IF name = "TEX0_1" THEN 1 ELSE 0)] /\ UNCHANGED <<feed, ghost>>

InitRing == gs = GSInit /\ op = Call("init", <<>>) /\ probe = [pass |-> {}, window |-> NoWindow, writes |-> 0] /\ feed = <<>> /\ ghost = GhostInit

RingFRAME == \E v \in {FrameOf(1, {}), FrameOf(3, {})} : RingStep("FRAME_1", v, a_d_FRAME(Begin(gs), 0, v), NoWindow)

RingPRIM == \E v \in {SpriteTex, PointTex} : RingStep("PRIM", v, a_d_PRIM(Begin(gs), v), NoWindow)

RingTEX0 == \E v \in RingTex0s : probe.writes < MaxRingWrites /\ RingStep("TEX0_1", v, a_d_TEX0(Begin(gs), 0, v), RingWindow(Begin(gs), v))

RingXYZ2 == \E v \in {XYZOf(8, 8)} : Live /\ RingStep("XYZ2", v, a_d_XYZ2(Begin(gs), v), NoWindow)

NextRing == RingFRAME \/ RingPRIM \/ RingTEX0 \/ RingXYZ2

SpecRing == InitRing /\ [][NextRing]_vars

RingUploads(ring) == {[desc |-> ring[i].upload, instance |-> ring[i].clut_instance] : i \in DOMAIN ring}

(***************************************************************************)
(* C29: a memoized palette lives until it is evicted or the render pass    *)
(* flushes.  Every entry of the ring is an upload update_palette_cache     *)
(* returned since the last render-pass flush, so the ring is empty after   *)
(* a flush; the ring never holds more than NumMemoizedPalettes entries,    *)
(* and a miss appends the new upload after dropping the oldest entry of a  *)
(* full ring; a hit returns the instance of an entry of the ring, obtained *)
(* from update_palette_cache earlier in the same unflushed pass.           *)
(***************************************************************************)
C29_RingLifetime ==
  /\ RingUploads(gs.render_pass.memoized_palettes) \subseteq probe.pass
  /\ probe.pass = {} => gs.render_pass.memoized_palettes = <<>>
  /\ Len(gs.render_pass.memoized_palettes) <= NumMemoizedPalettes
  /\ Len(probe.window.after) <= NumMemoizedPalettes
  /\ probe.window.r = "miss" => probe.window.after = (IF Len(probe.window.before) = NumMemoizedPalettes THEN Tail(probe.window.before) ELSE probe.window.before) \o <<probe.window.entry>>
  /\ probe.window.r = "hit" => /\ CountCalls(gs, "update_palette_cache") = 0
                               /\ \E u \in RingUploads(probe.window.before) \cap probe.pass : u.instance = probe.window.instance /\ u.desc = probe.window.entry.upload

C29_Witness == op.c = "TEX0_1" /\ probe.window.r = "miss" /\ Len(probe.window.before) = NumMemoizedPalettes /\ probe.window.after[1] = probe.window.before[2] /\ gs.render_pass.memoized_palettes = <<>>

RingClearedByHazard == op.c = "TEX0_1" /\ probe.window.r = "miss" /\ probe.window.before = <<>> /\ "flush_rendering" \in CallNames(gs) /\ probe.pass = RingUploads(gs.render_pass.memoized_palettes) /\ Cardinality(probe.pass) = 1

RingHitAcross == op.c = "TEX0_1" /\ probe.window.r = "hit" /\ Len(probe.window.before) = NumMemoizedPalettes /\ probe.window.before[1].clut_instance = probe.window.instance /\ gs.render_pass.primitive_count > 0

(***************************************************************************)
(* The ways one vertex can be kicked: A+D or REGLIST XYZ2 / XYZF2          *)
(* (drawing), the PACKED XYZ2 kick with the ADC bit, the PACKED XYZ3 kick, *)
(* and A+D or REGLIST XYZ3 / XYZF3.  QueueShape is what the next kick      *)
(* finds: the count and the vertices below it.                             *)
(***************************************************************************)
QueueShape(s) == [count |-> s.vertex_queue.count, pos |-> [i \in 1..s.vertex_queue.count |-> s.vertex_queue.pos[i]]]

FogVertex(v) == [X |-> v.X, Y |-> v.Y, Z |-> v.Z, F |-> 0]

PackedVertex(v, adc) == [X |-> v.X, Y |-> v.Y, Z |-> v.Z, ADC |-> adc]

MaintainedKicks(s, v) == {QueueShape(a_d_XYZF2(s, FogVertex(v))), QueueShape(packed_XYZ(s, FALSE, PackedVertex(v, 0))), QueueShape(packed_XYZ(s, FALSE, PackedVertex(v, 1))), QueueShape(packed_XYZ(s, TRUE, PackedVertex(v, 0)))}

StoredKicks(s, v) == {QueueShape(a_d_XYZ3(s, v)), QueueShape(a_d_XYZF3(s, FogVertex(v)))}

CompletesPrimitive(s, v) == s.draw_handler # "drawing_kick_invalid" /\ s.draw_handler = HandlerNames[s.registers.prim.PRIM + 1] /\ vertex_kick_xyz(s, v).vertex_queue.count >= PRIMTemplateArgs(s.registers.prim.PRIM).n

KickedVertex == [X |-> op'.v.X, Y |-> op'.v.Y, Z |-> op'.v.Z]

(***************************************************************************)
(* C31: a vertex kick that completes a primitive of the current topology   *)
(* leaves the same vertex queue (count and retained vertices) whichever    *)
(* way it is issued: drawing, suppressed by ADC, PACKED XYZ3 / XYZF3, or   *)
(* A+D / REGLIST XYZ3 / XYZF3.                                             *)
(***************************************************************************)
C31_QueueMaintenance ==
  [][(op'.c \in {"XYZ2", "XYZ3", "packed_XYZ"} /\ CompletesPrimitive(Begin(gs), KickedVertex))
     => MaintainedKicks(Begin(gs), KickedVertex) \cup StoredKicks(Begin(gs), KickedVertex) = {QueueShape(a_d_XYZ2(Begin(gs), KickedVertex))}]_vars

(***************************************************************************)
(* What holds: every kick that runs the draw handler (XYZ2, XYZF2, PACKED  *)
(* with or without ADC, PACKED XYZ3) leaves the same queue, and that is    *)
(* the queue of the step taken unless the step is the A+D XYZ3 write.      *)
(***************************************************************************)
KicksThroughHandlerAgree ==
  [][(op'.c \in {"XYZ2", "XYZ3", "packed_XYZ"} /\ CompletesPrimitive(Begin(gs), KickedVertex))
     => /\ MaintainedKicks(Begin(gs), KickedVertex) = {QueueShape(a_d_XYZ2(Begin(gs), KickedVertex))}
        /\ op'.c # "XYZ3" => QueueShape(gs') = QueueShape(a_d_XYZ2(Begin(gs), KickedVertex))]_vars

ListKeptByXYZ3 == op.c = "XYZ3" /\ gs.registers.prim.PRIM = 3 /\ gs.draw_handler = "TriangleList" /\ gs.vertex_queue.count = 3

(***************************************************************************)
(* Frame buffer bindings over both contexts.  FRAME of context 0 takes     *)
(* three values that differ in FBP, FBW or PSM, FRAME of context 1 one     *)
(* more; ZBUF of context 0 moves between two pages and TEST switches the   *)
(* depth test; PRMODECONT and PRIM switch the context; SCISSOR of context  *)
(* 0 is one pixel or 200 x 4 pixels, wider than every frame buffer, and    *)
(* the sprites reach x = 200.                                              *)
(***************************************************************************)
BindFrames == {FrameOf(1, {}), [FrameOf(2, {}) EXCEPT !.FBW = 2], [FrameOf(1, {}) EXCEPT !.PSM = "PSMCT16"]}

BindPrims == {[SpritePrim EXCEPT !.CTXT = c] : c \in {0, 1}}

MaxBindWrites == 4

BindStep(name, arg, s) == gs' = s /\ op' = Call(name, arg) /\ probe' = probe + (IF name = "XYZ2" THEN 0 ELSE 1) /\ UNCHANGED <<feed, ghost>>

InitBind == gs = GSInit /\ op = Call("init", <<>>) /\ probe = 0 /\ feed = <<>> /\ ghost = GhostInit

BindReady == probe < MaxBindWrites

BindFRAME_1 == \E v \in BindFrames : BindReady /\ BindStep("FRAME_1", v, a_d_FRAME(Begin(gs), 0, v))

BindFRAME_2 == \E v \in {FrameOf(3, {})} : BindReady /\ BindStep("FRAME_2", v, a_d_FRAME(Begin(gs), 1, v))

BindZBUF == \E v \in {ZbufOf(3, 0)} : BindReady /\ BindStep("ZBUF_1", v, a_d_ZBUF(Begin(gs), 0, v))

BindTEST == \E v \in {ZTestOn} : BindReady /\ BindStep("TEST_1", v, a_d_TEST(Begin(gs), 0, v))

BindSCISSOR == \E v \in {[SCISSORZero EXCEPT !.SCAX1 = 200, !.SCAY1 = 3]} : BindReady /\ BindStep("SCISSOR_1", v, a_d_SCISSOR(Begin(gs), 0, v))

BindPRMODECONT == \E v \in {[AC |-> 0], [AC |-> 1]} : BindReady /\ BindStep("PRMODECONT", v, a_d_PRMODECONT(Begin(gs), v))

BindPRIM == \E v \in BindPrims : BindReady /\ BindStep("PRIM", v, a_d_PRIM(Begin(gs), v))

BindXYZ2 == \E v \in {XYZOf(0, 0), XYZOf(3200, 32)} : Live /\ BindStep("XYZ2", v, a_d_XYZ2(Begin(gs), v))

NextBind == BindFRAME_1 \/ BindFRAME_2 \/ BindZBUF \/ BindTEST \/ BindSCISSOR \/ BindPRMODECONT \/ BindPRIM \/ BindXYZ2

SpecBind == InitBind /\ [][NextBind]_vars

PassesOf(s) == {s.calls[i].v : i \in {j \in DOMAIN s.calls : s.calls[j].c = "flush_rendering"}}

LastPrimitive(s) ==
  IF s.render_pass.prim # <<>> THEN s.render_pass.prim[Len(s.render_pass.prim)]
  ELSE LET d == s.calls[LastIndexOf(s, "flush_rendering")].v IN d.prims[Len(d.prims)]

BBInside(bb, scissor, frame) == bb.x <= bb.z /\ bb.y <= bb.w /\ scissor.SCAX0 <= bb.x /\ bb.z <= scissor.SCAX1 /\ scissor.SCAY0 <= bb.y /\ bb.w <= scissor.SCAY1 /\ bb.z < frame.FBW * BUFFER_WIDTH_SCALE

BoundAtAppend(s) ==
  /\ FrameWord0(s.render_pass.frame) = FrameWord0(Ctx(s).frame)
  /\ s.render_pass.zbuf.ZBP = Ctx(s).zbuf.ZBP /\ s.render_pass.zbuf.PSM = Ctx(s).zbuf.PSM
  /\ BBInside(LastPrimitive(s).bb, Ctx(s).scissor, Ctx(s).frame)

PassWithinFrame(d) == d.num_primitives >= 1 /\ \A i \in DOMAIN d.prims : d.prims[i].bb.z < d.frame.FBW * BUFFER_WIDTH_SCALE

OneBinding(s, t) ==
  /\ \A d \in PassesOf(t) : FrameWord0(d.frame) \in {FrameWord0(s.render_pass.frame), FrameWord0(t.render_pass.frame)}
  /\ (s.render_pass.primitive_count > 0 /\ FrameWord0(t.render_pass.frame) # FrameWord0(s.render_pass.frame))
       => \E d \in PassesOf(t) : FrameWord0(d.frame) = FrameWord0(s.render_pass.frame) /\ d.num_primitives = s.render_pass.primitive_count
  /\ (Appended(t) /\ t.render_pass.primitive_count > 1) => FrameWord0(t.render_pass.frame) = FrameWord0(s.render_pass.frame)

(***************************************************************************)
(* C32: the frame buffer assertions hold.  Whenever a primitive is         *)
(* appended the pass's FRAME low word and ZBUF ZBP / PSM are those of the  *)
(* active context, the primitive's bounding box is not empty, lies inside  *)
(* the active scissor and has max x < FBW * 64; every emitted pass has all *)
(* its boxes below FBW * 64 of its FRAME; and the FRAME of a pass that     *)
(* holds primitives changes only by emitting that pass whole, so all       *)
(* primitives of one pass share one FRAME binding.                         *)
(***************************************************************************)
C32_FramebufferAssertions ==
  [][/\ (op'.c = "XYZ2" /\ Appended(gs')) => BoundAtAppend(gs')
     /\ \A d \in PassesOf(gs') : PassWithinFrame(d)
     /\ OneBinding(gs, gs')]_vars

C32_Witness == op.c = "XYZ2" /\ Appended(gs) /\ "flush_rendering" \in CallNames(gs) /\ gs.registers.prim.CTXT = 0 /\ Ctx(gs).scissor.SCAX1 = 200 /\ LastPrimitive(gs).bb.z = Ctx(gs).frame.FBW * BUFFER_WIDTH_SCALE - 1 /\ gs.render_pass.primitive_count = 1

(* Two register writes (FRAME and PRIM) precede the first append, so the    *)
(* second primitive was appended by a kick that began with no dirty bit.   *)
CleanBitAppend == op.c = "XYZ2" /\ Appended(gs) /\ probe = 2 /\ gs.render_pass.primitive_count = 2 /\ BoundAtAppend(gs)

(***************************************************************************)
(* The value of the cursor i with which the loop of gif_transfer is left:  *)
(* the same passes as gif_transfer_loop, keeping i.  Every pass reads the  *)
(* qwords from its first i up to the i it leaves, so the greatest index    *)
(* handed to a handler is below size / 16 exactly when no pass leaves      *)
(* i above it.  A pass that does not move i is where the loop stays.       *)
(***************************************************************************)
RECURSIVE gif_transfer_cursor(_, _, _, _, _, _, _)
gif_transfer_cursor(s, path_index, data, size, i, nreg, optimized) ==
  IF i >= size \/ s.fault # "none" THEN i
  ELSE IF s.paths[path_index].loop = TagNLOOP(s.paths[path_index].tag)
  THEN gif_transfer_cursor(TagPass(s, path_index, data[i + 1]), path_index, data, size, i + 1, NregOf(data[i + 1]), optimized)
  ELSE LET pass == DataPass(s, path_index, data, size, i, nreg, optimized)
       IN IF pass.i = i
          THEN i
          ELSE gif_transfer_cursor(run_handlers([s EXCEPT !.paths[path_index].loop = pass.loop, !.paths[path_index].reg = pass.reg], pass.calls, 1),
                                   path_index, data, size, pass.i, nreg, optimized)

CursorAfter(s, t, optimized) == gif_transfer_cursor(Begin(s), t.path, t.data \o Repeat(t.past, Len(t.data)), Len(t.data), 0, NregOf(s.paths[t.path].tag), optimized)

Returned(s) == s.fault # "gif_transfer does not return"

(***************************************************************************)
(* C33 as stated: every gif_transfer call returns, whatever the state of   *)
(* the path and whatever the size of the input, a whole-loop handler at    *)
(* reg = 0 with fewer qwords than one loop included.                       *)
(***************************************************************************)
C33_TransferTerminates == op.c = "gif_transfer" => Returned(gs)

(***************************************************************************)
(* What holds: the generic dispatcher returns from every call, and a call  *)
(* that does not return stands at reg = 0 of a packet with a whole-loop    *)
(* handler and was given fewer qwords than one loop of that packet.        *)
(***************************************************************************)
StallsOnShortLoop ==
  [][op'.c = "gif_transfer"
       => /\ Returned(gif_transfer(Begin(gs), op'.v.path, op'.v.data \o Repeat(op'.v.past, Len(op'.v.data)), Len(op'.v.data), FALSE))
          /\ ~Returned(gs') => /\ gs'.paths[op'.v.path].reg = 0
                               /\ gs'.optimized_draw_handler[op'.v.path] # NoHandler
                               /\ gs'.paths[op'.v.path].loop < TagNLOOP(gs'.paths[op'.v.path].tag)
                               /\ Len(op'.v.data) < NregOf(gs'.paths[op'.v.path].tag)]_vars

(***************************************************************************)
(* C34 as stated: no pass of any call hands a handler a qword at or past   *)
(* size / 16, and the cursor i is at most size / 16 when the loop is left. *)
(***************************************************************************)
C34_ReadsInsideBuffer == [][op'.c = "gif_transfer" => CursorAfter(gs, op'.v, TRUE) <= Len(op'.v.data)]_vars

(***************************************************************************)
(* What holds: the generic dispatcher, REGLIST and IMAGE leave the cursor  *)
(* exactly at size / 16; the cursor passes size / 16 only through a        *)
(* whole-loop handler, and then by less than one loop of the packet.       *)
(***************************************************************************)
GenericReadsInside ==
  [][op'.c = "gif_transfer"
       => /\ CursorAfter(gs, op'.v, FALSE) = Len(op'.v.data)
          /\ CursorAfter(gs, op'.v, TRUE) > Len(op'.v.data)
               => /\ gs'.optimized_draw_handler[op'.v.path] # NoHandler
                  /\ CursorAfter(gs, op'.v, TRUE) < Len(op'.v.data) + NregOf(gs'.paths[op'.v.path].tag)]_vars

(***************************************************************************)
(* Register writes and GIF transfers that reach the vertex queue: PRIM of  *)
(* every type written directly under AC = 0 and AC = 1 and through PACKED  *)
(* tags with PRE set, vertex kicks through XYZ2, XYZ3 and through the      *)
(* loops of a PACKED packet that selects a whole-loop handler.  Transfers  *)
(* are a tag or one whole loop; the k-th vertex has Z = k.                 *)
(***************************************************************************)
MaxVertKicks == 4

MaxVertWrites == 3

StripTag == <<GIFTag(MaxVertKicks, 1, 2, PACKED, STQRGBAXYZ2_Mask)>>

VertTags == {StripTag, <<GIFTag(0, 1, 3, PACKED, <<GIFAddr.NOP>>)>>, <<GIFTag(0, 1, 5, PACKED, <<GIFAddr.NOP>>)>>}

VertsStep(name, arg, s) == gs' = s /\ op' = Call(name, arg) /\ probe' = [probe EXCEPT !.kicks = @ + (IF name \in {"XYZ2", "XYZ3", "loop"} THEN 1 ELSE 0), !.writes = @ + (IF name \in {"PRIM", "tag", "PRMODECONT"} THEN 1 ELSE 0)] /\ UNCHANGED <<feed, ghost>>

InitVerts == gs = GSInit /\ op = Call("init", <<>>) /\ probe = [kicks |-> 0, writes |-> 0] /\ feed = <<>> /\ ghost = GhostInit

VertsKickReady == Framed /\ probe.kicks < MaxVertKicks

VertsWriteReady == Framed /\ probe.writes < MaxVertWrites

NeedsTag(s) == s.paths[0].loop = TagNLOOP(s.paths[0].tag)

VertsFRAME == \E v \in {FrameOf(1, {})} : ~Framed /\ VertsStep("FRAME_1", v, a_d_FRAME(Begin(gs), 0, v))

VertsPRMODECONT == \E v \in {[AC |-> 0], [AC |-> 1]} : VertsWriteReady /\ v.AC # gs.registers.prmodecont.AC /\ VertsStep("PRMODECONT", v, a_d_PRMODECONT(Begin(gs), v))

VertsPRIM == \E p \in 0..PRIMInvalid : VertsWriteReady /\ VertsStep("PRIM", [PRIMZero EXCEPT !.PRIM = p, !.FST = 1], a_d_PRIM(Begin(gs), [PRIMZero EXCEPT !.PRIM = p, !.FST = 1]))

VertsXYZ2 == VertsKickReady /\ VertsStep("XYZ2", QueueVertex(probe.kicks), a_d_XYZ2(Begin(gs), QueueVertex(probe.kicks)))

VertsXYZ3 == VertsKickReady /\ VertsStep("XYZ3", QueueVertex(probe.kicks), a_d_XYZ3(Begin(gs), QueueVertex(probe.kicks)))

VertsTag == \E tag \in VertTags : VertsWriteReady /\ NeedsTag(gs) /\ VertsStep("tag", tag, gif_transfer(Begin(gs), 0, tag \o <<ZeroQword>>, 1, TRUE))

VertsLoop == VertsKickReady /\ ~NeedsTag(gs) /\ VertsStep("loop", Vertex(probe.kicks), gif_transfer(Begin(gs), 0, Vertex(probe.kicks) \o <<ZeroQword>>, 3, TRUE))

NextVerts == VertsFRAME \/ VertsPRMODECONT \/ VertsPRIM \/ VertsXYZ2 \/ VertsXYZ3 \/ VertsTag \/ VertsLoop

SpecVerts == InitVerts /\ [][NextVerts]_vars

(* The slot (counted from 0) the next vertex kick writes. *)
KickSlot(s) == shift_vertex_queue(s).vertex_queue.count

(* The vertex count of the topology whose handler a kick runs. *)
HandlerVertices(s, name) ==
  IF name = "loop" /\ s.optimized_draw_handler[0] # NoHandler
  THEN (IF s.optimized_draw_handler[0].PRIM = PRIMInvalid THEN 4 ELSE PRIMTemplateArgs(s.optimized_draw_handler[0].PRIM).n)
  ELSE IF s.draw_handler = "drawing_kick_invalid" THEN 4
  ELSE PRIMTemplateArgs(CHOOSE p \in 0..6 : HandlerNames[p + 1] = s.draw_handler).n

(***************************************************************************)
(* C35: the vertex queue count stays in 0..3; every vertex kick writes a   *)
(* slot with index < 3; a kick assembles a primitive only when the queue   *)
(* then holds at least the vertex count of the topology whose handler      *)
(* runs (never under the invalid handler); every PRIM write, changed or    *)
(* not, with AC = 0 or 1, direct or through a PACKED tag with PRE set,     *)
(* leaves the queue empty.                                                 *)
(***************************************************************************)
C35_VertexQueue ==
  [][/\ gs'.vertex_queue.count \in 0..3
     /\ op'.c \in {"XYZ2", "XYZ3", "loop"} => KickSlot(gs) < 3
     /\ (op'.c \in {"XYZ2", "XYZ3", "loop"} /\ Appended(gs')) => KickSlot(gs) + 1 >= HandlerVertices(gs, op'.c)
     /\ op'.c \in {"PRIM", "tag"} => gs'.vertex_queue.count = 0]_vars

C35_Witness == op.c = "loop" /\ Appended(gs) /\ gs.vertex_queue.count = 3 /\ probe.kicks = MaxVertKicks /\ gs.registers.prmodecont.AC = 0

FullQueueReset == op.c = "PRIM" /\ gs.vertex_queue.count = 0 /\ gs.registers.prmodecont.AC = 0 /\ probe.kicks >= 3 /\ gs.draw_handler = "TriangleStrip" /\ gs.registers.prim.PRIM = 4 /\ probe.writes = 2

(* The same with the topology of the PRIM register in place of the         *)
(* handler's.                                                              *)
AssembledForRegister ==
  [][(op'.c \in {"XYZ2", "XYZ3", "loop"} /\ Appended(gs')) => (gs.registers.prim.PRIM # PRIMInvalid /\ KickSlot(gs) + 1 >= PRIMTemplateArgs(gs.registers.prim.PRIM).n)]_vars

(***************************************************************************)
(* State and texture indices of the primitives handed to the back-end.     *)
(* Textured and untextured sprites and textured points; a texture on       *)
(* page 2, a texture on the frame buffer's page 1 (hazard and feedback)    *)
(* and a palette texture whose TFX differs (a second state vector); TEST   *)
(* writes that mark STATE and PRIM_TEMPLATE but not TEX; frame buffer on   *)
(* page 1 or 3.                                                            *)
(***************************************************************************)
MaxIndexWrites == 4

IndexTex0s == {[TEX0Zero EXCEPT !.TBP0 = 2 * BLOCKS_PER_PAGE, !.TBW = 1], FeedbackTex0, [Tex0Of(2 * BLOCKS_PER_PAGE, "PSMT4", 0) EXCEPT !.TFX = 1]}

IndexPrims == {SpriteTex, SpritePrim, PointTex}

IndexStep(name, arg, s) == gs' = s /\ op' = Call(name, arg) /\ probe' = probe + (IF name = "XYZ2" THEN 0 ELSE 1) /\ UNCHANGED <<feed, ghost>>

InitIndex == gs = GSInit /\ op = Call("init", <<>>) /\ probe = 0 /\ feed = <<>> /\ ghost = GhostInit

IndexReady == probe < MaxIndexWrites

IndexFRAME == \E v \in {FrameOf(1, {}), FrameOf(3, {})} : IndexReady /\ IndexStep("FRAME_1", v, a_d_FRAME(Begin(gs), 0, v))

IndexPRIM == \E v \in IndexPrims : IndexReady /\ IndexStep("PRIM", v, a_d_PRIM(Begin(gs), v))

IndexTEX0 == \E v \in IndexTex0s : IndexReady /\ IndexStep("TEX0_1", v, a_d_TEX0(Begin(gs), 0, v))

IndexTEST == \E v \in {TESTZero, [TESTZero EXCEPT !.ATE = 1]} : IndexReady /\ IndexStep("TEST_1", v, a_d_TEST(Begin(gs), 0, v))

IndexXYZ2 == \E v \in VertexInputs : LiveDraw /\ IndexStep("XYZ2", v, a_d_XYZ2(Begin(gs), v))

NextIndex == IndexFRAME \/ IndexPRIM \/ IndexTEX0 \/ IndexTEST \/ IndexXYZ2

SpecIndex == InitIndex /\ [][NextIndex]_vars

(* The pass the last appended primitive is in: the accumulator, or the     *)
(* pass just emitted when the kick ended with the overflow flush.          *)
PassView(s) ==
  IF s.render_pass.prim # <<>> THEN [prims |-> s.render_pass.prim, states |-> s.render_pass.state_vectors, textures |-> s.render_pass.tex_infos]
  ELSE LET d == s.calls[LastIndexOf(s, "flush_rendering")].v IN [prims |-> d.prims, states |-> d.states, textures |-> d.textures]

Textured(view, p) == view.states[p.state.index + 1].combiner.TME /\ ~p.tex.feedback

IndexedPrim(view, p) ==
  /\ p.state.index \in 0..(Len(view.states) - 1)
  /\ Textured(view, p) => p.tex.index \in 0..(Len(view.textures) - 1)

IndexedPass(view) == \A i \in DOMAIN view.prims : IndexedPrim(view, view.prims[i])

CurrentAtKick(s) ==
  LET view == PassView(s)
      p == view.prims[Len(view.prims)]
  IN /\ IndexedPrim(view, p)
     /\ view.states[p.state.index + 1] = BuildStateVector(s)
     /\ Textured(view, p) => TextureHash(view.textures[p.tex.index + 1]) = TextureHash(TextureDesc(s))

(***************************************************************************)
(* C36: in every pass handed to the back-end every primitive's state       *)
(* index is < num_states and, when it is textured and not a feedback       *)
(* sentinel, its texture index is < num_textures; at its draw kick the     *)
(* indexed texture is the descriptor the registers then describe (and the  *)
(* indexed state is the state vector of the registers), also when a flush  *)
(* is raised in the middle of the kick and when the STATE, TEX or          *)
(* PRIM_TEMPLATE computation is skipped on a clean dirty bit.              *)
(***************************************************************************)
C36_IndicesInRange ==
  [][/\ \A d \in PassesOf(gs') : IndexedPass(d)
     /\ (op'.c = "XYZ2" /\ Appended(gs')) => CurrentAtKick(gs')]_vars

MidKickFlush(s) == \E i \in DOMAIN s.calls : s.calls[i].c = "flush_rendering" /\ i < IndexOf(s, "append")

C36_Witness == op.c = "XYZ2" /\ Appended(gs) /\ MidKickFlush(gs) /\ gs.render_pass.prim # <<>> /\ Textured(PassView(gs), gs.render_pass.prim[1]) /\ gs.state_tracker.last_texture_index = 0

(* A textured primitive appended with the second texture and the second    *)
(* state vector of its pass.                                               *)
SecondTexture == op.c = "XYZ2" /\ Appended(gs) /\ \E d \in PassesOf(gs) : \E i \in DOMAIN d.prims : Textured(d, d.prims[i]) /\ d.prims[i].tex.index = 1 /\ d.prims[i].state.index = 1

(* A textured primitive appended by a kick that skipped the texture        *)
(* computation: TEST marked PRIM_TEMPLATE and STATE, TEX stayed clean.     *)
CleanTexKick == op.c = "XYZ2" /\ Appended(gs) /\ Len(PassView(gs).prims) = 2 /\ Len(PassView(gs).states) = 2 /\ Len(PassView(gs).textures) = 1 /\ Textured(PassView(gs), PassView(gs).prims[2]) /\ PassView(gs).prims[2].state.index = 1 /\ probe = 4

(***************************************************************************)
(* Hazard marks of the accumulator.  `probe` keeps what the tracker has    *)
(* been given since the render pass began: for every page the union of     *)
(* the write masks of the mark_fb_write rectangles that cover it, and the  *)
(* pages of the mark_fb_read rectangles; a flush callback with the FB      *)
(* flag begins a new pass.  The frame buffer is two pages wide on page 1   *)
(* with FBMSK clear or masking the high byte, the Z buffer on page 3 with  *)
(* ZMSK 0 or 1, sprites cover one page or both.                            *)
(***************************************************************************)
MaxMarkWrites == 7

MaxMarkKicks == 4

NoMarks == [written |-> [p \in Pages |-> {}], read |-> {}]

RECURSIVE PassMarks(_, _)
PassMarks(marks, calls) ==
  IF calls = <<>> THEN marks
  ELSE PassMarks(IF IsFlush(Head(calls), "FB") THEN NoMarks
                 ELSE IF Head(calls).c = "mark_fb_write" THEN [marks EXCEPT !.written = [p \in Pages |-> IF p \in RectPages(Head(calls).v) THEN @[p] \cup Head(calls).v.write_mask ELSE @[p]]]
                 ELSE IF Head(calls).c = "mark_fb_read" THEN [marks EXCEPT !.read = @ \cup RectPages(Head(calls).v)]
                 ELSE marks, Tail(calls))

MarkFrames == {[FrameOf(1, {}) EXCEPT !.FBW = 2], [FrameOf(1, High8) EXCEPT !.FBW = 2]}

MarkStep(name, arg, s) == gs' = s /\ op' = Call(name, arg) /\ probe' = [marks |-> PassMarks(probe.marks, s.calls), writes |-> probe.writes + (IF name = "XYZ2" THEN 0 ELSE 1), kicks |-> probe.kicks + (IF name = "XYZ2" THEN 1 ELSE 0)] /\ UNCHANGED <<feed, ghost>>

InitMark == gs = GSInit /\ op = Call("init", <<>>) /\ probe = [marks |-> NoMarks, writes |-> 0, kicks |-> 0] /\ feed = <<>> /\ ghost = GhostInit

MarkReady == probe.writes \in 3..(MaxMarkWrites - 1)

MarkSCISSOR == \E v \in {[SCISSORZero EXCEPT !.SCAX1 = 127, !.SCAY1 = 3]} : probe.writes = 0 /\ MarkStep("SCISSOR_1", v, a_d_SCISSOR(Begin(gs), 0, v))

MarkPRIM == \E v \in {SpritePrim} : probe.writes = 1 /\ MarkStep("PRIM", v, a_d_PRIM(Begin(gs), v))

MarkTEST == \E v \in {ZTestOn} : probe.writes = 2 /\ MarkStep("TEST_1", v, a_d_TEST(Begin(gs), 0, v))

MarkFRAME == \E v \in MarkFrames : MarkReady /\ v # Ctx(gs).frame /\ MarkStep("FRAME_1", v, a_d_FRAME(Begin(gs), 0, v))

MarkZBUF == \E v \in {ZbufOf(3, 0), ZbufOf(3, 1)} : MarkReady /\ v # Ctx(gs).zbuf /\ MarkStep("ZBUF_1", v, a_d_ZBUF(Begin(gs), 0, v))

MarkXYZ2 == \E v \in {XYZOf(0, 0), XYZOf(32, 32), XYZOf(2032, 32)} : probe.kicks < MaxMarkKicks /\ MarkStep("XYZ2", v, a_d_XYZ2(Begin(gs), v))

NextMark == MarkFRAME \/ MarkZBUF \/ MarkTEST \/ MarkSCISSOR \/ MarkPRIM \/ MarkXYZ2

SpecMark == InitMark /\ [][NextMark]_vars

ColorMarked(s, marks, p) ==
  \A page \in RectPages(compute_fb_rect(s, p.bb)) : ((AllBits \ p.fbmsk) \cap psm_word_write_mask(s.render_pass.frame.PSM)) \subseteq marks.written[page]

DepthMarked(s, marks, p) ==
  \A page \in RectPages(compute_z_rect(s, p.bb)) :
     /\ "Z_WRITE" \in p.state.bits => psm_word_write_mask(s.render_pass.zbuf.PSM) \subseteq marks.written[page]
     /\ "Z_TEST" \in p.state.bits => (page \in marks.read \/ psm_word_write_mask(s.render_pass.zbuf.PSM) \subseteq marks.written[page])

(***************************************************************************)
(* C37: every page under the bounding box of every primitive of the        *)
(* unflushed render pass has been given to mark_fb_write since the pass    *)
(* began, with write masks that cover the bits the primitive writes, and   *)
(* when the primitive tests or writes depth its Z pages have been given    *)
(* to mark_fb_read (depth only read) or to mark_fb_write (depth written).  *)
(***************************************************************************)
C37_HazardsMarked ==
  \A i \in DOMAIN gs.render_pass.prim : ColorMarked(gs, probe.marks, gs.render_pass.prim[i]) /\ DepthMarked(gs, probe.marks, gs.render_pass.prim[i])

(* The box grew from one page to two, the colour mask grew and the pass    *)
(* went from reading depth to writing it.                                  *)
C37_Witness ==
  /\ op.c = "XYZ2" /\ Appended(gs) /\ gs.render_pass.primitive_count = 2
  /\ gs.render_pass.prim[1].bb.z < 64 /\ gs.render_pass.prim[2].bb.z >= 64
  /\ gs.render_pass.prim[1].fbmsk = High8 /\ gs.render_pass.prim[2].fbmsk = {}
  /\ "Z_WRITE" \notin gs.render_pass.prim[1].state.bits /\ "Z_TEST" \in gs.render_pass.prim[1].state.bits /\ "Z_WRITE" \in gs.render_pass.prim[2].state.bits
  /\ probe.marks.read # {}

(* Every kick that grows the box, the colour mask or the depth use of a    *)
(* pass it does not flush marks the pages again.                           *)
RemarkedOnGrowth ==
  [][(op'.c = "XYZ2" /\ Appended(gs') /\ "flush" \notin CallNames(gs')
        /\ (gs'.render_pass.bb # gs.render_pass.bb \/ gs'.render_pass.color_write_mask # gs.render_pass.color_write_mask
              \/ gs'.render_pass.z_sensitive # gs.render_pass.z_sensitive \/ gs'.render_pass.z_write # gs.render_pass.z_write))
       => /\ "mark_fb_write" \in CallNames(gs')
          /\ gs'.render_pass.z_sensitive => ("mark_fb_read" \in CallNames(gs') \/ CountOf(gs', "mark_fb_write") = 2)]_vars

TurnsOnZWrite == op'.c = "XYZ2" /\ Appended(gs') /\ ~gs.render_pass.z_write /\ gs'.render_pass.z_write

(***************************************************************************)
(* C38 as stated: a draw kick that turns on Z writes for the render pass   *)
(* returns with the FEEDBACK dirty bit set, so that the draw kick that     *)
(* follows it begins with the bit set and classifies feedback again.       *)
(***************************************************************************)
C38_FeedbackBitSurvives == [][TurnsOnZWrite => DirtyFlag(gs', "FEEDBACK")]_vars

(***************************************************************************)
(* What holds: the kick that turns on Z writes returns with no dirty bit   *)
(* at all, and the kick that follows it directly makes its primitive with  *)
(* the FEEDBACK bit clear.                                                 *)
(***************************************************************************)
ZWriteKickEndsClean == [][TurnsOnZWrite => gs'.state_tracker.dirty_flags = {}]_vars

NextKickSkipsFeedback == op.c = "XYZ2" /\ Appended(gs) /\ gs.render_pass.z_write /\ gs.render_pass.primitive_count = 1 /\ gs.state_tracker.dirty_flags = {} /\ gs.vertex_queue.count = 0

(***************************************************************************)
(* Emitted render passes: register writes and draw kicks of textured and   *)
(* untextured sprites, and GSInterface::flush_render_pass called on the    *)
(* accumulator as it stands, empty or not.                                 *)
(***************************************************************************)
MaxEmitWrites == 4

MaxEmitFlushes == 3

EmitTex0s == {[TEX0Zero EXCEPT !.TBP0 = 2 * BLOCKS_PER_PAGE, !.TBW = 1], [Tex0Of(2 * BLOCKS_PER_PAGE, "PSMT4", 0) EXCEPT !.TFX = 1]}

Accumulated(s) == [primitives |-> s.render_pass.primitive_count, states |-> Len(s.render_pass.state_vectors), textures |-> Len(s.render_pass.tex_infos), held_images |-> Len(s.render_pass.held_images), palettes |-> s.render_pass.pending_palette_updates]

NothingAccumulated == [primitives |-> 0, states |-> 0, textures |-> 0, held_images |-> 0, palettes |-> 0]

EmitStep(name, arg, s) == gs' = s /\ op' = Call(name, arg) /\ probe' = [writes |-> probe.writes + (IF name \in {"XYZ2", "flush_render_pass"} THEN 0 ELSE 1), flushes |-> probe.flushes + (IF name = "flush_render_pass" THEN 1 ELSE 0), before |-> Accumulated(gs)] /\ UNCHANGED <<feed, ghost>>

InitEmit == gs = GSInit /\ op = Call("init", <<>>) /\ probe = [writes |-> 0, flushes |-> 0, before |-> NothingAccumulated] /\ feed = <<>> /\ ghost = GhostInit

EmitReady == probe.writes \in 1..(MaxEmitWrites - 1)

EmitFRAME == \E v \in {FrameOf(1, {})} : probe.writes = 0 /\ EmitStep("FRAME_1", v, a_d_FRAME(Begin(gs), 0, v))

EmitPRIM == \E v \in {SpriteTex, SpritePrim} : EmitReady /\ v # gs.registers.prim /\ EmitStep("PRIM", v, a_d_PRIM(Begin(gs), v))

EmitTEX0 == \E v \in EmitTex0s : EmitReady /\ EmitStep("TEX0_1", v, a_d_TEX0(Begin(gs), 0, v))

EmitXYZ2 == \E v \in VertexInputs : LiveDraw /\ EmitStep("XYZ2", v, a_d_XYZ2(Begin(gs), v))

EmitFlush == \E reason \in {"SubmissionFlush"} : probe.writes >= 1 /\ probe.flushes < MaxEmitFlushes /\ LiveDraw /\ EmitStep("flush_render_pass", reason, flush_render_pass(Begin(gs), reason))

NextEmit == EmitFRAME \/ EmitPRIM \/ EmitTEX0 \/ EmitXYZ2 \/ EmitFlush

SpecEmit == InitEmit /\ [][NextEmit]_vars

Emissions(s) == SelectSeq(s.calls, LAMBDA c : c.c = "flush_rendering")

(***************************************************************************)
(* C39: every render pass handed to the back-end holds at least one        *)
(* primitive; the passes emitted by one operation carry the label keys     *)
(* that follow the last one emitted, one apart, and the key advances by    *)
(* the number of passes emitted; flush_render_pass emits one pass when the *)
(* accumulator holds primitives and none when it is empty, and in both     *)
(* cases leaves no primitive, state, texture, held image or pending        *)
(* palette update in the accumulator and sets every dirty bit.             *)
(***************************************************************************)
C39_EmittedPasses ==
  [][LET passes == Emissions(gs')
     IN /\ \A i \in DOMAIN passes : passes[i].v.num_primitives >= 1 /\ passes[i].v.label_key = gs.render_pass.label_key + i - 1
        /\ gs'.render_pass.label_key = gs.render_pass.label_key + Len(passes)
        /\ op'.c = "flush_render_pass" =>
             /\ Len(passes) = (IF gs.render_pass.primitive_count = 0 THEN 0 ELSE 1)
             /\ \A i \in DOMAIN passes : passes[i].v.num_primitives = gs.render_pass.primitive_count
             /\ Accumulated(gs') = NothingAccumulated
             /\ gs'.state_tracker.dirty_flags = STATE_DIRTY_ALL_BITS]_vars

C39_Witness == op.c = "flush_render_pass" /\ Len(Emissions(gs)) = 1 /\ Emissions(gs)[1].v.label_key = 1 /\ probe.before.primitives >= 1 /\ probe.before.textures >= 1 /\ probe.before.states >= 1 /\ probe.before.held_images >= 1 /\ probe.before.palettes >= 1

EmptyFlush == op.c = "flush_render_pass" /\ Emissions(gs) = <<>> /\ probe.before.primitives = 0 /\ probe.before.palettes >= 1 /\ gs.render_pass.label_key = 1

KickEmits == op.c = "XYZ2" /\ Len(Emissions(gs)) = 1 /\ Emissions(gs)[1].v.num_primitives >= 2

(***************************************************************************)
(* The words of host-to-local transfers: after a fixed set-up (FRAME_1,    *)
(* a textured sprite PRIM, BITBLTBUF), TRXREG and TRXDIR writes begin      *)
(* transfers of two or four words, HWREG delivers one or several words,    *)
(* and TEX0 palette loads, textured kicks, FRAME_1 writes, overflowing     *)
(* passes and flush() submit the words received so far.  `probe` keeps the *)
(* words received and the byte ranges submitted by the transfer in flight  *)
(* and by the last one that ended.                                         *)
(***************************************************************************)
MaxWordOps == 5

MaxWordKicks == 4

WordSize == 8

NoWords == [words |-> <<>>, ranges |-> <<>>]

HostCopies(s) == SelectSeq(s.calls, LAMBDA c : c.c = "copy_vram" /\ c.v.copy.trxdir.XDIR = HOST_TO_LOCAL /\ c.v.host_data_size_required # 0)

RECURSIVE RangesOf(_)
RangesOf(copies) == IF copies = <<>> THEN <<>> ELSE <<[offset |-> WordSize * Head(copies).v.host_data_size_offset, size |-> WordSize * Len(Head(copies).v.host_data), data |-> Head(copies).v.host_data]>> \o RangesOf(Tail(copies))

WordsNext(name, arg, s) ==
  LET received == IF name = "HWREG" /\ gs.transfer_state.host_to_local_active THEN probe.flight.words \o arg ELSE probe.flight.words
      flight == [words |-> received, ranges |-> probe.flight.ranges \o RangesOf(HostCopies(s))]
      ended == gs.transfer_state.host_to_local_active /\ (name = "TRXDIR" \/ ~s.transfer_state.host_to_local_active)
  IN [flight |-> IF ended THEN NoWords ELSE flight, ended |-> IF ended THEN flight ELSE probe.ended, ops |-> probe.ops + (IF name = "XYZ2" THEN 0 ELSE 1), kicks |-> probe.kicks + (IF name = "XYZ2" THEN 1 ELSE 0)]

WordStep(name, arg, s) == gs' = s /\ op' = Call(name, arg) /\ probe' = WordsNext(name, arg, s) /\ UNCHANGED <<feed, ghost>>

InitWords == gs = GSInit /\ op = Call("init", <<>>) /\ probe = [flight |-> NoWords, ended |-> NoWords, ops |-> 0, kicks |-> 0] /\ feed = <<>> /\ ghost = GhostInit

WordsReady == probe.ops \in 3..(2 + MaxWordOps)

WordsFRAME == \E v \in {FrameOf(1, {}), FrameOf(3, {})} : (probe.ops = 0 \/ WordsReady) /\ v # Ctx(gs).frame /\ WordStep("FRAME_1", v, a_d_FRAME(Begin(gs), 0, v))

WordsPRIM == \E v \in {SpriteTex, SpritePrim} : probe.ops = 1 /\ WordStep("PRIM", v, a_d_PRIM(Begin(gs), v))

WordsBITBLTBUF == \E v \in {BitbltOf(2 * BLOCKS_PER_PAGE)} : probe.ops = 2 /\ WordStep("BITBLTBUF", v, a_d_BITBLTBUF(Begin(gs), v))

WordsTRXREG == \E v \in {TrxregOf(4, 1), TrxregOf(8, 1)} : WordsReady /\ v # gs.registers.trxreg /\ WordStep("TRXREG", v, a_d_TRXREG(Begin(gs), v))

WordsTRXDIR == \E v \in {[XDIR |-> HOST_TO_LOCAL]} : WordsReady /\ WordStep("TRXDIR", v, a_d_TRXDIR(Begin(gs), v))

WordsHWREG == \E v \in {3} : WordsReady /\ gs.transfer_state.host_to_local_active /\ WordStep("HWREG", <<v>>, a_d_HWREG(Begin(gs), v))

WordsHWREGMulti == \E v \in {<<1, 2>>, <<2, 1, 2>>} : WordsReady /\ gs.transfer_state.host_to_local_active /\ WordStep("HWREG", v, a_d_HWREG_multi(Begin(gs), v))

WordsTEX0 == \E v \in {Tex0Of(BLOCKS_PER_PAGE, "PSMT4", 0)} : WordsReady /\ WordStep("TEX0_1", v, a_d_TEX0(Begin(gs), 0, v))

WordsXYZ2 == \E v \in VertexInputs : probe.ops >= 3 /\ probe.kicks < MaxWordKicks /\ LiveDraw /\ WordStep("XYZ2", v, a_d_XYZ2(Begin(gs), v))

WordsFlush == WordsReady /\ gs.transfer_state.host_to_local_active /\ WordStep("flush", <<>>, GSInterface_flush(Begin(gs)))

NextWords == WordsFRAME \/ WordsPRIM \/ WordsBITBLTBUF \/ WordsTRXREG \/ WordsTRXDIR \/ WordsHWREG \/ WordsHWREGMulti \/ WordsTEX0 \/ WordsXYZ2 \/ WordsFlush

SpecWords == InitWords /\ [][NextWords]_vars

Contiguous(ranges) == \A i \in DOMAIN ranges : ranges[i].offset < ranges[i].size /\ ranges[i].offset = (IF i = 1 THEN 0 ELSE ranges[i - 1].size)

Covered(ranges) == IF ranges = <<>> THEN 0 ELSE ranges[Len(ranges)].size

DataOf(t) == \A i \in DOMAIN t.ranges : t.ranges[i].size <= WordSize * Len(t.words) /\ t.ranges[i].data = SubSeq(t.words, 1, t.ranges[i].size \div WordSize)

(***************************************************************************)
(* C40: last_flushed_qwords stays between 0 and the payload size; while no *)
(* transfer is active the payload is empty and last_flushed_qwords is 0;   *)
(* the byte ranges [offset, size) that one transfer hands to copy_vram     *)
(* start at 0, are not empty and each begins where the one before it       *)
(* ended, over the words received in their order; the ranges submitted so  *)
(* far end at last_flushed_qwords words, and those of a transfer that has  *)
(* ended cover every word it received.                                     *)
(***************************************************************************)
C40_TransferWords ==
  LET ts == gs.transfer_state
  IN /\ ts.last_flushed_qwords \in 0..Len(ts.host_to_local_payload)
     /\ ~ts.host_to_local_active => ts.host_to_local_payload = <<>> /\ ts.last_flushed_qwords = 0
     /\ ts.host_to_local_payload = probe.flight.words
     /\ Contiguous(probe.flight.ranges) /\ DataOf(probe.flight)
     /\ Covered(probe.flight.ranges) = WordSize * ts.last_flushed_qwords
     /\ Contiguous(probe.ended.ranges) /\ DataOf(probe.ended)
     /\ Covered(probe.ended.ranges) = WordSize * Len(probe.ended.words)

C40_Witness == ~gs.transfer_state.host_to_local_active /\ Len(probe.ended.ranges) = 3 /\ Len(probe.ended.words) = 4

EarlyByKick == op.c = "XYZ2" /\ HostCopies(gs) # <<>> /\ gs.registers.prim.TME = 1 /\ gs.transfer_state.host_to_local_active /\ gs.transfer_state.last_flushed_qwords = 1

EarlyByPalette == op.c = "TEX0_1" /\ HostCopies(gs) # <<>> /\ gs.transfer_state.host_to_local_active

EarlyByFlush == op.c = "flush" /\ HostCopies(gs) # <<>> /\ Len(probe.flight.ranges) = 2

EarlyByFramePointer == op.c = "XYZ2" /\ HostCopies(gs) # <<>> /\ gs.registers.prim.TME = 0 /\ \E p \in PassesOf(gs) : p.flush_reason = "FBPointer"

EndedByRestart == op.c = "TRXDIR" /\ HostCopies(gs) # <<>> /\ probe.ended.ranges # <<>> /\ gs.transfer_state.host_to_local_active

MoreThanRequired == op.c = "HWREG" /\ Len(probe.ended.words) = 5 /\ Len(probe.ended.ranges) = 2

SplitOfGenericPacket == (op.c = "gif_transfer" /\ op.v.data \in {GenericPacket, RegListPacket, ImagePacket} /\ gs.optimized_draw_handler[op.v.path].h = "nullptr" /\ probe.whole.optimized_draw_handler[op.v.path].h = "nullptr") => gs = probe.whole

StaleHandlerDiverges == op.c = "gif_transfer" /\ op.v.data = DataOnly /\ feed = <<1, 1, 6>> /\ gs.registers.prim.PRIM = 2 /\ probe.whole.optimized_draw_handler[op.v.path].h # "nullptr" /\ Returned(probe.whole) /\ Returned(probe.generic) /\ probe.whole.vertex_queue.count # probe.generic.vertex_queue.count

SplitMisframes == op.c = "gif_transfer" /\ Returned(gs) /\ Returned(probe.whole) /\ gs.paths # probe.whole.paths

====
